---- MODULE Spec2Model ----
(***************************************************************************)
(* Registry synchronisation and renewal notification engine of the         *)
(* trademark system: the two rate-limited registry clients (FIPSScraper,   *)
(* WIPOClient), the per-registration sync with its reconciliation, and     *)
(* the expiration notification sweep.                                      *)
(*                                                                         *)
(* Three groups of variables, each driven by its own specifications:       *)
(*   SpecClient     one client instance, concurrent fetch callers, clock   *)
(*   SpecSync       per-registration sync against FIPS / WIPO              *)
(*   SpecSweep*     check_expiring_trademarks runs                         *)
(***************************************************************************)
EXTENDS Integers, Sequences, FiniteSets, TLC

None == "None"
\* None in a column or field that holds a date or a time (Optional[date]).
NoDate == -1

(***************************************************************************)
(* Program constants of the clients.                                       *)
(***************************************************************************)
FIPS_RATE_LIMIT == 12
WIPO_RATE_LIMIT == 10
DefaultRetries == 3
BACKOFF == 5

Kinds == {"fips", "wipo"}

\* MIN_DELAY = 60.0 / RATE_LIMIT, in seconds (5 for FIPS, 6 for WIPO).
MIN_DELAY(k) == IF k = "fips" THEN 60 \div FIPS_RATE_LIMIT ELSE 60 \div WIPO_RATE_LIMIT

(***************************************************************************)
(* RegistryRecord: FIPSTrademarkData / WIPOTrademarkData, reduced to the   *)
(* fields the sync reads.  WIPOTrademarkData has no goods_services field.  *)
(***************************************************************************)
EmptyRec(err) ==
  [error |-> err, expiration_date |-> NoDate, status |-> None,
   registration_date |-> NoDate, goods_services |-> {}, image_url |-> None]

\* What the parser makes of the registry's data `ext` on a well-formed page.
\* The WIPO record carries no goods/services descriptions.
ParsedRec(k, ext) ==
  [error |-> None, expiration_date |-> ext.expiration_date, status |-> ext.status,
   registration_date |-> ext.registration_date,
   goods_services |-> IF k = "fips" THEN ext.goods_services ELSE {},
   image_url |-> ext.image_url]

\* _extract_data / _parse_*_response catching an exception half way: the
\* fields extracted before the failure stay in the record, the error is set.
PartialRec(k, ext, err) ==
  [error |-> err, expiration_date |-> ext.expiration_date, status |-> ext.status,
   registration_date |-> NoDate, goods_services |-> {}, image_url |-> None]

(***************************************************************************)
(* get_trademark_by_number as a step function over the responses of the    *)
(* network calls.  A fetch state:                                          *)
(*   attempt  index of the running attempt (range(retries))                *)
(*   started  number of attempts begun                                     *)
(*   phase    "main" (FIPS page / WIPO JSON API) or "html" (WIPO fallback) *)
(*   error    result.error of the local `result`                           *)
(*   step     "gate" | "sleep" | "page" | "call" | "backoff" | "done"      *)
(*   rec      the returned record once step = "done"                       *)
(*   ncalls   network calls issued so far                                  *)
(*   okAt     attempt index of a successful attempt, or -1                 *)
(*   slept    TRUE when the last failed attempt was followed by the        *)
(*            backoff sleep                                                *)
(*   nfAt     history: ncalls when the source first answered "not found",  *)
(*            or -1                                                        *)
(***************************************************************************)
FipsResponses == {"ok", "extract_error", "not_found", "http_error", "timeout", "conn_error"}
WipoApiResponses == {"ok", "parse_error", "http_404", "http_error", "timeout", "conn_error"}
WipoHtmlResponses == {"ok", "parse_error", "not_found", "http_error", "timeout", "conn_error"}

Responses(k, phase) ==
  IF k = "fips" THEN FipsResponses
  ELSE IF phase = "main" THEN WipoApiResponses ELSE WipoHtmlResponses

NewFetch(n) ==
  IF n > 0
  THEN [attempt |-> 0, started |-> 1, phase |-> "main", error |-> None, step |-> "gate",
        rec |-> EmptyRec(None), ncalls |-> 0, okAt |-> -1, slept |-> FALSE,
        nfAt |-> -1]
  ELSE [attempt |-> 0, started |-> 0, phase |-> "main", error |-> None, step |-> "done",
        rec |-> EmptyRec(None), ncalls |-> 0, okAt |-> -1, slept |-> FALSE,
        nfAt |-> -1]

\* `return result` with the local result object (only its error was touched).
ReturnResult(fs, err) ==
  [fs EXCEPT !.error = err, !.step = "done", !.rec = EmptyRec(err)]

\* A return that hands back the parsed fields in the local `result`, whose
\* error an earlier attempt may have set.
ReturnRec_into_result(fs, rec) ==
  [fs EXCEPT !.step = "done",
             !.rec = [rec EXCEPT !.error = IF rec.error = None THEN fs.error ELSE @],
             !.okAt = IF rec.error = None THEN fs.attempt ELSE @]

\* `return <record>`: a record built by the extractor / parser.
ReturnRec(fs, rec) ==
  [fs EXCEPT !.step = "done", !.rec = rec,
             !.okAt = IF rec.error = None THEN fs.attempt ELSE @]

\* A loop that goes on whatever the number of attempts made.
NextAttempt_unbounded(fs, n, err) ==
  [fs EXCEPT !.attempt = @ + 1, !.started = @ + 1, !.phase = "main",
             !.error = err, !.step = "gate"]

\* The for loop moves on: the next iteration, or the final `return result`.
NextAttempt(fs, n, err) ==
  IF fs.attempt + 1 < n
  THEN [fs EXCEPT !.attempt = @ + 1, !.started = @ + 1, !.phase = "main",
                  !.error = err, !.step = "gate"]
  ELSE ReturnResult(fs, err)

\* An except branch: set the error, sleep 5 s unless this was the last attempt.
OnException(fs, n, err) ==
  IF fs.attempt < n - 1
  THEN [fs EXCEPT !.error = err, !.step = "backoff", !.slept = TRUE]
  ELSE ReturnResult(fs, err)

\* `continue` / falling off the end of the try body: no sleep.
OnContinue(fs, n, err) == NextAttempt([fs EXCEPT !.slept = FALSE], n, err)

FipsOnResponse(fs, n, resp, ext) ==
  CASE resp = "http_error" -> OnContinue(fs, n, "HTTP error")
    [] resp = "timeout" -> OnException(fs, n, "Timeout")
    [] resp = "conn_error" -> OnException(fs, n, "Connection error")
    [] resp = "not_found" -> ReturnResult(fs, "Trademark not found")
    [] resp = "extract_error" -> ReturnRec(fs, PartialRec("fips", ext, "Extraction error"))
    [] OTHER -> ReturnRec(fs, ParsedRec("fips", ext))

\* _fetch_from_api then the test `api_result and not api_result.error`:
\* everything but a clean parse falls through to the HTML fallback, which
\* starts with a second pass through the rate gate.
WipoOnApiResponse(fs, n, resp, ext) ==
  IF resp = "ok"
  THEN ReturnRec(fs, ParsedRec("wipo", ext))
  ELSE [fs EXCEPT !.phase = "html", !.step = "gate"]

\* _fetch_from_html then the test `if html_result`: a record is returned as
\* it is (with its error, if any); None sets the error and the loop goes on.
WipoOnHtmlResponse(fs, n, resp, ext) ==
  CASE resp = "ok" -> ReturnRec(fs, ParsedRec("wipo", ext))
    [] resp = "parse_error" -> ReturnRec(fs, PartialRec("wipo", ext, "Parse error"))
    [] resp = "not_found" -> ReturnRec(fs, EmptyRec("Trademark not found"))
    [] OTHER -> OnContinue(fs, n, "Could not fetch data from WIPO")

OnResponse(k, fs, n, resp, ext) ==
  IF k = "fips" THEN FipsOnResponse(fs, n, resp, ext)
  ELSE IF fs.phase = "main" THEN WipoOnApiResponse(fs, n, resp, ext)
  ELSE WipoOnHtmlResponse(fs, n, resp, ext)

\* The responses by which a source says that the number does not exist:
\* the FIPS page text, the 404 of the WIPO JSON API, the WIPO page text.
IsNotFound(k, phase, resp) ==
  IF k = "wipo" /\ phase = "main" THEN resp = "http_404" ELSE resp = "not_found"

\* OnResponse, with the history field nfAt kept.
Respond(k, fs, n, resp, ext) ==
  LET fs2 == OnResponse(k, fs, n, resp, ext) IN
    [fs2 EXCEPT !.nfAt = IF @ = -1 /\ IsNotFound(k, fs.phase, resp) THEN fs.ncalls ELSE @]

\* asyncio.sleep(5) is over: the loop starts the next attempt.
AfterBackoff(fs) ==
  [fs EXCEPT !.attempt = @ + 1, !.started = @ + 1, !.phase = "main", !.step = "gate"]

\* The rate gate let the caller through.  FIPS then awaits new_page() before
\* page.goto; WIPO goes straight into self._client.get.
AfterGate(k, fs) ==
  IF k = "fips" THEN [fs EXCEPT !.step = "page"]
  ELSE [fs EXCEPT !.step = "call", !.ncalls = @ + 1]

(***************************************************************************)
(* State.                                                                  *)
(***************************************************************************)
VARIABLES
  \* -- one client instance and its concurrent callers (SpecClient)
  kind,               \* "fips" (FIPSScraper) or "wipo" (WIPOClient)
  retries,            \* the `retries` argument of get_trademark_by_number
  now,                \* the event loop clock, in seconds
  last_request_time,  \* self._last_request_time
  lock,               \* holder of self._lock, or None
  active,             \* caller -> has called get_trademark_by_number
  fetch,              \* caller -> fetch state
  wake,               \* caller -> deadline of its asyncio.sleep
  gated,              \* caller -> passed the gate since its last network call
  prev_call,          \* issue time of the last but one outbound call, or -1
  last_call,          \* issue time of the last outbound call, or -1
  ungated_call,       \* history: some call was issued without a gate passage
  prev_gate,          \* time of the last but one gate passage, or -1
  last_gate,          \* time of the last gate passage, or -1
  \* -- the notification sweep (SpecSweep, SpecSweepConc, SpecSweepCrash)
  today,              \* the calendar clock, in days (date.today(), datetime.now)
  instant,            \* index of today in Instants
  regs,               \* the trademark_registrations table: id -> row
  admin_emails,       \* TRUE when _get_admin_emails returns some address
  notifications,      \* the notifications table: a set of rows
  alerts,             \* history: the alerts that reached a recipient
  sw,                 \* worker -> state of its check_expiring_trademarks run
  crashes,            \* number of runs killed so far
  conc_runs,          \* number of overlapping runs started so far
  \* -- the sync of registrations (SpecSync); it shares today and regs
  trademarks,         \* registration id -> its trademark: image and classes
  external,           \* what the registries hold for the looked-up numbers
  sync_logs,          \* the sync_logs table, in insertion order
  job,                \* the running sync task
  attempts,           \* number of per-registration syncs begun
  last_attempt,       \* history: the last per-registration sync that ended
  prev_attempt,       \* history: the one before it
  \* -- the parsing of the classes of a record (SpecClasses)
  response,           \* what the registry shows for the classes of a number
  parsed              \* the class fields of the record a client returns

clientVars == <<kind, retries, now, last_request_time, lock, active, fetch, wake,
                gated, prev_call, last_call, ungated_call, prev_gate, last_gate>>

tableVars == <<today, instant, regs>>

sweepOnlyVars == <<admin_emails, notifications, alerts, sw, crashes, conc_runs>>

syncOnlyVars == <<trademarks, external, sync_logs, job, attempts, last_attempt,
                  prev_attempt>>

parseVars == <<response, parsed>>

vars == <<clientVars, tableVars, sweepOnlyVars, syncOnlyVars, parseVars>>

nonClientVars == <<tableVars, sweepOnlyVars, syncOnlyVars, parseVars>>
nonSweepVars == <<clientVars, syncOnlyVars, parseVars>>
nonSyncVars == <<clientVars, today, instant, sweepOnlyVars, parseVars>>
nonParseVars == <<clientVars, tableVars, sweepOnlyVars, syncOnlyVars>>

(***************************************************************************)
(* SpecClient: callers of one client instance.                             *)
(***************************************************************************)
Callers == {"c1", "c2"}
MaxTime == 12

\* The data the registry holds for the looked-up number in SpecClient.
SampleExt ==
  [expiration_date |-> 1, status |-> "registered", registration_date |-> 1,
   goods_services |-> {}, image_url |-> None]

ClientInit0 ==
  /\ kind \in Kinds
  /\ retries \in 1..DefaultRetries
  /\ now \in {0, MIN_DELAY(kind)}
  /\ last_request_time = 0
  /\ lock = None
  /\ active = [c \in Callers |-> FALSE]
  /\ fetch = [c \in Callers |-> NewFetch(0)]
  /\ wake = [c \in Callers |-> 0]
  /\ gated = [c \in Callers |-> FALSE]
  /\ prev_call = -1
  /\ last_call = -1
  /\ ungated_call = FALSE
  /\ prev_gate = -1
  /\ last_gate = -1

\* A caller enters get_trademark_by_number.
CallerStart(c) ==
  /\ ~active[c]
  /\ active' = [active EXCEPT ![c] = TRUE]
  /\ fetch' = [fetch EXCEPT ![c] = NewFetch(retries)]
  /\ UNCHANGED <<kind, retries, now, last_request_time, lock, wake, gated,
                 prev_call, last_call, ungated_call, prev_gate, last_gate>>
  /\ UNCHANGED nonClientVars

\* The network call leaves: page.goto / self._client.get.
IssueEffect(c) ==
  /\ prev_call' = last_call
  /\ last_call' = now
  /\ ungated_call' = (ungated_call \/ ~gated[c])
  /\ gated' = [gated EXCEPT ![c] = FALSE]

\* The caller leaves _rate_limit: the stamp is taken, the lock released.
PassGate(c) ==
  /\ last_request_time' = now
  /\ lock' = None
  /\ prev_gate' = last_gate
  /\ last_gate' = now
  /\ fetch' = [fetch EXCEPT ![c] = AfterGate(kind, @)]
  /\ IF kind = "fips"
     THEN /\ gated' = [gated EXCEPT ![c] = TRUE]
          /\ UNCHANGED <<prev_call, last_call, ungated_call>>
     ELSE /\ prev_call' = last_call
          /\ last_call' = now
          /\ UNCHANGED <<gated, ungated_call>>

\* _rate_limit: `async with self._lock`, then either the sleep or the stamp.
GateEnter(c) ==
  /\ active[c]
  /\ fetch[c].step = "gate"
  /\ lock = None
  /\ LET elapsed == now - last_request_time IN
     IF elapsed < MIN_DELAY(kind)
     THEN /\ lock' = c
          /\ wake' = [wake EXCEPT ![c] = now + (MIN_DELAY(kind) - elapsed)]
          /\ fetch' = [fetch EXCEPT ![c].step = "sleep"]
          /\ UNCHANGED <<last_request_time, gated, prev_call, last_call,
                         ungated_call, prev_gate, last_gate>>
     ELSE /\ PassGate(c)
          /\ UNCHANGED wake
  /\ UNCHANGED <<kind, retries, now, active>>
  /\ UNCHANGED nonClientVars

\* asyncio.sleep(wait_time) inside the gate returns.
GateWake(c) ==
  /\ fetch[c].step = "sleep"
  /\ lock = c
  /\ now >= wake[c]
  /\ PassGate(c)
  /\ UNCHANGED <<kind, retries, now, active, wake>>
  /\ UNCHANGED nonClientVars

\* FIPS: new_page() has returned, page.goto is issued.
IssueCall(c) ==
  /\ fetch[c].step = "page"
  /\ fetch' = [fetch EXCEPT ![c].step = "call", ![c].ncalls = @ + 1]
  /\ IssueEffect(c)
  /\ UNCHANGED <<kind, retries, now, last_request_time, lock, active, wake,
                 prev_gate, last_gate>>
  /\ UNCHANGED nonClientVars

\* The network call ends with a response; the attempt is decided.
Response(c) ==
  /\ fetch[c].step = "call"
  /\ \E resp \in Responses(kind, fetch[c].phase) :
       LET fs == Respond(kind, fetch[c], retries, resp, SampleExt) IN
         /\ fetch' = [fetch EXCEPT ![c] = fs]
         /\ wake' = [wake EXCEPT ![c] = IF fs.step = "backoff" THEN now + BACKOFF ELSE @]
  /\ UNCHANGED <<kind, retries, now, last_request_time, lock, active, gated,
                 prev_call, last_call, ungated_call, prev_gate, last_gate>>
  /\ UNCHANGED nonClientVars

\* asyncio.sleep(5) between attempts returns.
BackoffWake(c) ==
  /\ fetch[c].step = "backoff"
  /\ now >= wake[c]
  /\ fetch' = [fetch EXCEPT ![c] = AfterBackoff(@)]
  /\ UNCHANGED <<kind, retries, now, last_request_time, lock, active, wake, gated,
                 prev_call, last_call, ungated_call, prev_gate, last_gate>>
  /\ UNCHANGED nonClientVars

\* Time passes.
Tick ==
  /\ now < MaxTime
  /\ now' = now + 1
  /\ UNCHANGED <<kind, retries, last_request_time, lock, active, fetch, wake, gated,
                 prev_call, last_call, ungated_call, prev_gate, last_gate>>
  /\ UNCHANGED nonClientVars

\* The parser's variables, parked while another specification runs.
ParseParked ==
  /\ response = <<>>
  /\ parsed = <<>>

\* The sweep's variables, parked while another specification runs.
TablesParked ==
  /\ today = 0
  /\ instant = 1
  /\ regs = <<>>
  /\ ParseParked

SweepParked ==
  /\ admin_emails = FALSE
  /\ notifications = {}
  /\ alerts = {}
  /\ sw = <<>>
  /\ crashes = 0
  /\ conc_runs = 0

SyncParked ==
  /\ trademarks = <<>>
  /\ external = <<>>
  /\ sync_logs = <<>>
  /\ job = <<>>
  /\ attempts = 0
  /\ last_attempt = <<>>
  /\ prev_attempt = <<>>

ClientInit == ClientInit0 /\ TablesParked /\ SweepParked /\ SyncParked

ClientNext ==
  \/ \E c \in Callers : CallerStart(c)
  \/ \E c \in Callers : GateEnter(c)
  \/ \E c \in Callers : GateWake(c)
  \/ \E c \in Callers : IssueCall(c)
  \/ \E c \in Callers : Response(c)
  \/ \E c \in Callers : BackoffWake(c)
  \/ Tick

SpecClient == ClientInit /\ [][ClientNext]_vars

(***************************************************************************)
(* SpecRun: the network side of one run of sync_fips_trademarks or         *)
(* sync_wipo_trademarks.  The rows are synced one after the other by one   *)
(* caller, and the sync of each row opens a client of its own.             *)
(***************************************************************************)
RunCaller == "c1"

RunInit == ClientInit /\ retries = DefaultRetries

\* `async with FIPSScraper() as scraper:` / `async with WIPOClient() as
\* client:` in the sync of the next row of the run: __init__ sets
\* _last_request_time = 0 and makes a new lock, then the fetch begins.
RegistrationStart ==
  /\ ~active[RunCaller] \/ fetch[RunCaller].step = "done"
  /\ active' = [active EXCEPT ![RunCaller] = TRUE]
  /\ fetch' = [fetch EXCEPT ![RunCaller] = NewFetch(retries)]
  /\ last_request_time' = 0
  /\ lock' = None
  /\ UNCHANGED <<kind, retries, now, wake, gated, prev_call, last_call, ungated_call,
                 prev_gate, last_gate>>
  /\ UNCHANGED nonClientVars

RunNext ==
  \/ RegistrationStart
  \/ GateEnter(RunCaller)
  \/ GateWake(RunCaller)
  \/ IssueCall(RunCaller)
  \/ Response(RunCaller)
  \/ BackoffWake(RunCaller)
  \/ Tick

SpecRun == RunInit /\ [][RunNext]_vars

(***************************************************************************)
(* Properties of the rate gate.                                            *)
(***************************************************************************)
\* Passages through the gate (the stamps of _last_request_time) are spaced.
GateSpacing == prev_gate # -1 => last_gate - prev_gate >= MIN_DELAY(kind)

\* The WIPO client issues its call in the step that leaves the gate.
WipoCallSpacing ==
  (kind = "wipo" /\ prev_call # -1) => last_call - prev_call >= MIN_DELAY(kind)

\* C1: every outbound call of one client instance follows a passage of its
\* caller through the rate gate, and any two consecutive outbound calls of
\* the instance are at least 60/rate_limit_per_minute seconds apart.
C1_CallSpacing ==
  /\ ~ungated_call
  /\ prev_call # -1 => last_call - prev_call >= MIN_DELAY(kind)

(***************************************************************************)
(* The notification sweep: check_expiring_trademarks.                      *)
(***************************************************************************)
INTERVALS == <<180, 90, 30>>
DEDUP_WINDOW == 7

\* A swap of two enum values.
RenewalStatus_swapped ==
  [ACTIVE |-> "renewal_filed", RENEWAL_FILED |-> "active",
   NOT_RENEWING |-> "not_renewing", EXPIRED |-> "expired"]

RenewalStatus ==
  [ACTIVE |-> "active", RENEWAL_FILED |-> "renewal_filed",
   NOT_RENEWING |-> "not_renewing", EXPIRED |-> "expired"]

RenewalStatuses == {"active", "renewal_filed", "not_renewing", "expired"}

Regs == {"r1", "r2"}
Workers == {"w1", "w2"}
\* Expiration dates the registrations are drawn from, in days after day 0:
\* one that expires during the run of the clock, one that stays in the
\* 30-day window, and three that cross a window border.
ExpDates == {2, 20, 33, 92, 182}
\* The registrations of the initial state: r1 is active with any of the
\* dates, r2 expires in 20 days and has any renewal status.
\* A row of trademark_registrations.
Registration(nat, intl, rs, regnum, madrid, exp, st, regdate) ==
  [is_national |-> nat, is_international |-> intl, renewal_status |-> rs,
   registration_number |-> regnum, madrid_registration_number |-> madrid,
   expiration_date |-> exp, status |-> st, registration_date |-> regdate,
   last_sync_at |-> NoDate, last_sync_source |-> None]

SweepRows ==
  {Registration(TRUE, FALSE, rs, "RU-1", None, exp, "registered", NoDate) :
     rs \in RenewalStatuses, exp \in ExpDates}

InitRegs ==
  {f \in [Regs -> SweepRows] :
     /\ f["r1"].renewal_status = "active"
     /\ f["r2"].expiration_date = 20}
\* The days on which something can happen (a run starts or goes on): they
\* put two sweeps 1, 6, 7 and 8 days apart.  The clock runs through the
\* first MaxInstant of them.
Instants == <<0, 1, 7, 8, 9, 15, 16>>
MaxInstant == 4
MaxCrashes == 1
MaxConcRuns == 2

\* The notification type of the pass for `days`.
PassType(days) ==
  IF days >= 180 THEN "expiration_180"
  ELSE IF days >= 90 THEN "expiration_90"
  ELSE "expiration_30"

\* The window the actual days remaining fall in.
CurrentType(days_remaining) ==
  IF days_remaining > 90 THEN "expiration_180"
  ELSE IF days_remaining > 30 THEN "expiration_90"
  ELSE "expiration_30"

\* The WHERE clause of _get_expiring_registrations.
Expiring(r, days) ==
  /\ regs[r].expiration_date <= today + days
  /\ regs[r].expiration_date >= today
  /\ regs[r].renewal_status = RenewalStatus.ACTIVE

\* The rows of _get_expiring_registrations(days): every order the ORDER BY
\* expiration_date ASC allows (rows with equal dates come in any order).
get_expiring_registrations(days) ==
  LET S == {r \in Regs : Expiring(r, days)} IN
    {q \in [1..Cardinality(S) -> S] :
       /\ \A i, j \in 1..Cardinality(S) : i # j => q[i] # q[j]
       /\ \A i, j \in 1..Cardinality(S) :
            i < j => regs[q[i]].expiration_date <= regs[q[j]].expiration_date}

\* The check at the top of the loop body.
Suppressed(r) ==
  regs[r].renewal_status \in
    {RenewalStatus.RENEWAL_FILED, RenewalStatus.NOT_RENEWING, RenewalStatus.EXPIRED}

\* The cutoff compared with > instead of >=.
check_notification_exists_strict(r, type) ==
  LET cutoff == today - DEDUP_WINDOW IN
    \E n \in notifications :
      /\ n.registration_id = r
      /\ n.notification_type = type
      /\ n.created_at > cutoff

\* _check_notification_exists(registration_id, notification_type).
check_notification_exists(r, type) ==
  LET cutoff == today - DEDUP_WINDOW IN
    \E n \in notifications :
      /\ n.registration_id = r
      /\ n.notification_type = type
      /\ n.created_at >= cutoff

\* What the loop body decides for the registration at the head of the rows,
\* up to and including the dedup check: "skip" or "send".
LoopDecision(r, days) ==
  IF Suppressed(r) THEN "skip"
  ELSE IF CurrentType(regs[r].expiration_date - today) # PassType(days) THEN "skip"
  ELSE IF check_notification_exists(r, PassType(days)) THEN "skip"
  ELSE "send"

\* Rows and alerts of one (registration, type) pair.
RowsOf(r, type) ==
  {n \in notifications : n.registration_id = r /\ n.notification_type = type}

AlertsOf(r, type) ==
  {a \in alerts : a.registration_id = r /\ a.notification_type = type}

\* A row with one delivery status for both channels.
NewNotification_shared_status(r, type, email_sent, telegram_sent) ==
  [id |-> Cardinality(RowsOf(r, type)) + 1,
   registration_id |-> r, notification_type |-> type,
   trigger_date |-> regs[r].expiration_date, scheduled_send_date |-> today,
   email_status |-> IF email_sent \/ telegram_sent THEN "sent" ELSE None,
   telegram_status |-> IF email_sent \/ telegram_sent THEN "sent" ELSE None,
   created_at |-> today]

\* The row _create_notification inserts (id: the primary key, here the
\* ordinal of the row among those of its pair).
NewNotification(r, type, email_sent, telegram_sent) ==
  [id |-> Cardinality(RowsOf(r, type)) + 1,
   registration_id |-> r, notification_type |-> type,
   trigger_date |-> regs[r].expiration_date, scheduled_send_date |-> today,
   email_status |-> IF email_sent THEN "sent" ELSE None,
   telegram_status |-> IF telegram_sent THEN "sent" ELSE None,
   created_at |-> today]

\* History: the alert of one loop iteration reached a recipient over at
\* least one channel (recorded once, with the first channel that delivers).
NewAlert(r, type) ==
  [id |-> Cardinality(AlertsOf(r, type)) + 1,
   registration_id |-> r, notification_type |-> type, at |-> today]

IdleRun ==
  [pc |-> "idle", idx |-> 1, rows |-> <<>>, cur |-> None,
   email_sent |-> FALSE, telegram_sent |-> FALSE]

SweepInit0 ==
  /\ today = Instants[1]
  /\ instant = 1
  /\ regs \in InitRegs
  /\ admin_emails \in BOOLEAN
  /\ notifications = {}
  /\ alerts = {}
  /\ sw = [w \in Workers |-> IdleRun]
  /\ crashes = 0
  /\ conc_runs = 0

\* The beat schedule (or a redelivery) starts a run on worker w.
RunStart(w) ==
  /\ sw[w].pc = "idle"
  /\ sw' = [sw EXCEPT ![w] = [IdleRun EXCEPT !.pc = "query"]]
  /\ UNCHANGED <<today, instant, regs, admin_emails, notifications, alerts, crashes>>
  /\ UNCHANGED nonSweepVars

\* _process_notifications_for_interval begins: the rows are read.
PassQuery(w) ==
  /\ sw[w].pc = "query"
  /\ \E q \in get_expiring_registrations(INTERVALS[sw[w].idx]) :
       sw' = [sw EXCEPT ![w].rows = q, ![w].pc = "loop"]
  /\ UNCHANGED <<today, instant, regs, admin_emails, notifications, alerts, crashes>>
  /\ UNCHANGED <<conc_runs, nonSweepVars>>

\* The rows of a pass are used up: the next interval, or the run returns.
PassEnd(w) ==
  /\ sw[w].pc = "loop"
  /\ sw[w].rows = <<>>
  /\ sw' = [sw EXCEPT ![w] =
              IF sw[w].idx < Len(INTERVALS)
              THEN [@ EXCEPT !.idx = @ + 1, !.pc = "query"]
              ELSE IdleRun]
  /\ UNCHANGED <<today, instant, regs, admin_emails, notifications, alerts, crashes>>
  /\ UNCHANGED <<conc_runs, nonSweepVars>>

\* One iteration of the loop up to the dedup check.
LoopStep(w) ==
  /\ sw[w].pc = "loop"
  /\ sw[w].rows # <<>>
  /\ LET r == Head(sw[w].rows) IN
       IF LoopDecision(r, INTERVALS[sw[w].idx]) = "skip"
       THEN sw' = [sw EXCEPT ![w].rows = Tail(@)]
       ELSE sw' = [sw EXCEPT ![w].cur = r, ![w].pc = "email"]
  /\ UNCHANGED <<today, instant, regs, admin_emails, notifications, alerts, crashes>>
  /\ UNCHANGED <<conc_runs, nonSweepVars>>

\* _send_email_notification: False without admin addresses, else the
\* sender's own outcome.
SendEmail(w) ==
  /\ sw[w].pc = "email"
  /\ \E ok \in (IF admin_emails THEN BOOLEAN ELSE {FALSE}) :
       /\ sw' = [sw EXCEPT ![w].email_sent = ok, ![w].pc = "telegram"]
       /\ alerts' = IF ok
                    THEN alerts \cup {NewAlert(sw[w].cur, PassType(INTERVALS[sw[w].idx]))}
                    ELSE alerts
  /\ UNCHANGED <<today, instant, regs, admin_emails, notifications, crashes>>
  /\ UNCHANGED <<conc_runs, nonSweepVars>>

\* _send_telegram_notification: the bot's outcome, exceptions caught.
SendTelegram(w) ==
  /\ sw[w].pc = "telegram"
  /\ \E ok \in BOOLEAN :
       /\ sw' = [sw EXCEPT ![w].telegram_sent = ok, ![w].pc = "create"]
       /\ alerts' = IF ok /\ ~sw[w].email_sent
                    THEN alerts \cup {NewAlert(sw[w].cur, PassType(INTERVALS[sw[w].idx]))}
                    ELSE alerts
  /\ UNCHANGED <<today, instant, regs, admin_emails, notifications, crashes>>
  /\ UNCHANGED <<conc_runs, nonSweepVars>>

\* _create_notification commits the row; the loop goes on.
CreateNotification(w) ==
  /\ sw[w].pc = "create"
  /\ notifications' = notifications \cup
                        {NewNotification(sw[w].cur, PassType(INTERVALS[sw[w].idx]),
                                         sw[w].email_sent, sw[w].telegram_sent)}
  /\ sw' = [sw EXCEPT ![w].rows = Tail(@), ![w].cur = None, ![w].pc = "loop",
                      ![w].email_sent = FALSE, ![w].telegram_sent = FALSE]
  /\ UNCHANGED <<today, instant, regs, admin_emails, alerts, crashes>>
  /\ UNCHANGED <<conc_runs, nonSweepVars>>

\* Time passes, to the next day on which something happens.
NextDay ==
  /\ instant < MaxInstant
  /\ instant < Len(Instants)
  /\ instant' = instant + 1
  /\ today' = Instants[instant + 1]
  /\ UNCHANGED <<regs, admin_emails, notifications, alerts, sw, crashes>>
  /\ UNCHANGED <<conc_runs, nonSweepVars>>

\* The worker running the task dies (task_acks_late: the task is redelivered
\* and starts again from the top with RunStart).
RunCrash(w) ==
  /\ sw[w].pc # "idle"
  /\ crashes < MaxCrashes
  /\ crashes' = crashes + 1
  /\ sw' = [sw EXCEPT ![w] = IdleRun]
  /\ UNCHANGED <<today, instant, regs, admin_emails, notifications, alerts>>
  /\ UNCHANGED <<conc_runs, nonSweepVars>>

\* The client's variables, parked while another specification runs.
ClientIdle ==
  /\ kind = "fips"
  /\ retries = DefaultRetries
  /\ now = 0
  /\ last_request_time = 0
  /\ lock = None
  /\ active = <<>>
  /\ fetch = <<>>
  /\ wake = <<>>
  /\ gated = <<>>
  /\ prev_call = -1
  /\ last_call = -1
  /\ ungated_call = FALSE
  /\ prev_gate = -1
  /\ last_gate = -1

ClientParked == ClientIdle /\ ParseParked

SweepInit == SweepInit0 /\ ClientParked /\ SyncParked

\* Runs that do not overlap all go to the same worker.
SeqWorkers == {"w1"}

OthersIdle(w) == \A v \in Workers \ {w} : sw[v].pc = "idle"

\* Runs one after the other: a run starts when no other run is under way.
RunStartSeq(w) == OthersIdle(w) /\ RunStart(w) /\ UNCHANGED conc_runs

\* Runs that may overlap (a manual trigger next to the beat schedule, two
\* workers): any worker that is free takes one.
RunStartConc(w) ==
  /\ conc_runs < MaxConcRuns
  /\ conc_runs' = conc_runs + 1
  /\ RunStart(w)

SweepSteps ==
  \/ \E w \in Workers : PassQuery(w)
  \/ \E w \in Workers : PassEnd(w)
  \/ \E w \in Workers : LoopStep(w)
  \/ \E w \in Workers : SendEmail(w)
  \/ \E w \in Workers : SendTelegram(w)
  \/ \E w \in Workers : CreateNotification(w)
  \/ NextDay

SweepNext ==
  \/ \E w \in SeqWorkers : RunStartSeq(w)
  \/ SweepSteps

SweepConcNext ==
  \/ \E w \in Workers : RunStartConc(w)
  \/ SweepSteps

SweepCrashNext ==
  \/ \E w \in SeqWorkers : RunStartSeq(w)
  \/ \E w \in Workers : RunCrash(w)
  \/ SweepSteps

\* Sequential runs, none killed.
SpecSweep == SweepInit /\ [][SweepNext]_vars
\* Runs that overlap, over one registration that can be alerted.
SweepConcInit ==
  /\ SweepInit
  /\ admin_emails
  /\ regs["r2"].renewal_status = "renewal_filed"

SpecSweepConc == SweepConcInit /\ [][SweepConcNext]_vars
\* Sequential runs, some killed and redelivered.
SpecSweepCrash == SweepInit /\ [][SweepCrashNext]_vars

\* One run on its own, which may go past midnight once: each pass reads
\* date.today() anew.
OnceDates == {20, 31, 91, 200}

OnceRegs ==
  {f \in [Regs -> {Registration(TRUE, FALSE, rs, "RU-1", None, exp, "registered", NoDate) :
                     rs \in RenewalStatuses, exp \in OnceDates}] :
     /\ f["r1"].renewal_status = "active"
     /\ f["r2"].expiration_date = 20}

OnceInit ==
  /\ today = Instants[1]
  /\ instant = 1
  /\ regs \in OnceRegs
  /\ admin_emails \in BOOLEAN
  /\ notifications = {}
  /\ alerts = {}
  /\ sw = [w \in Workers |-> IdleRun]
  /\ crashes = 0
  /\ conc_runs = 0
  /\ ClientParked
  /\ SyncParked

\* The one run of the specification starts.
RunOnce(w) ==
  /\ conc_runs = 0
  /\ conc_runs' = 1
  /\ RunStart(w)

\* Midnight passes while the run is under way, between two of its passes.
Midnight ==
  /\ instant = 1
  /\ \E w \in SeqWorkers : sw[w].pc = "query" /\ sw[w].idx > 1
  /\ NextDay

OnceNext ==
  \/ \E w \in SeqWorkers : RunOnce(w)
  \/ \E w \in SeqWorkers : PassQuery(w)
  \/ \E w \in SeqWorkers : PassEnd(w)
  \/ \E w \in SeqWorkers : LoopStep(w)
  \/ \E w \in SeqWorkers : SendEmail(w)
  \/ \E w \in SeqWorkers : SendTelegram(w)
  \/ \E w \in SeqWorkers : CreateNotification(w)
  \/ Midnight

SpecSweepOnce == OnceInit /\ [][OnceNext]_vars

(***************************************************************************)
(* Properties of the notification sweep.                                   *)
(***************************************************************************)
Apart(x, y) == IF x >= y THEN x - y ELSE y - x

\* Two different rows of one (registration, type) pair.
SamePair(n1, n2) ==
  /\ n1 # n2
  /\ n1.registration_id = n2.registration_id
  /\ n1.notification_type = n2.notification_type

RowsSpaced ==
  \A n1, n2 \in notifications :
    SamePair(n1, n2) => Apart(n1.created_at, n2.created_at) > DEDUP_WINDOW

AlertsSpaced ==
  \A a1, a2 \in alerts : SamePair(a1, a2) => Apart(a1.at, a2.at) > DEDUP_WINDOW

\* C2: after any sequence of runs that do not overlap, started at arbitrary
\* times, no two Notifications of the same (registration_id,
\* notification_type) have created_at within 7 days of each other.
C2_NoTwoWithinWindow == RowsSpaced

\* Two rows of one pair exist (necessarily more than 7 days apart).
C2_Witness == \E n1, n2 \in notifications : SamePair(n1, n2)

\* C3: two runs that overlap never both pass the dedup check and both send:
\* per (registration, type) at most one Notification is created and at most
\* one alert is sent within the window.
C3_ConcurrentRunsOnce == RowsSpaced /\ AlertsSpaced

\* C4: a run that is killed at any point and delivered again sends no second
\* alert and creates no second Notification for a (registration, type) the
\* killed run already alerted within the dedup window.
C4_RedeliverySafe == crashes > 0 => (AlertsSpaced /\ RowsSpaced)

\* C5: a registration whose renewal_status is renewal_filed, not_renewing
\* or expired gets no Notification and no alert from a sweep, however close
\* its expiration date is.
C5_SuppressedNeverAlerted ==
  \A r \in Regs :
    regs[r].renewal_status \in {"renewal_filed", "not_renewing", "expired"} =>
      /\ \A n \in notifications : n.registration_id # r
      /\ \A a \in alerts : a.registration_id # r
      /\ \A w \in Workers : sw[w].cur # r

\* The 30-day pass of a run has gone through its rows and alerted the other
\* registration, while a registration that is not active expires within the
\* 30 days.
C5_Witness ==
  \E w \in Workers, r \in Regs :
    /\ sw[w].pc = "loop" /\ sw[w].idx = Len(INTERVALS) /\ sw[w].rows = <<>>
    /\ regs[r].renewal_status \in {"renewal_filed", "not_renewing", "expired"}
    /\ regs[r].expiration_date >= today
    /\ regs[r].expiration_date - today <= INTERVALS[Len(INTERVALS)]
    /\ \E n \in notifications : n.registration_id # r /\ n.created_at = today

(***************************************************************************)
(* SpecSync: the sync tasks.  One task runs at a time; it syncs its        *)
(* registrations one after the other, each against FIPS or WIPO.           *)
(***************************************************************************)
MaxAttempts == 2
MaxLimit == 2

\* The responses the network gives to the calls of a sync.
SyncResponses(k, phase) ==
  IF k = "fips" THEN {"ok", "extract_error", "not_found", "timeout"}
  ELSE IF phase = "main" THEN {"ok", "http_404", "timeout"}
  ELSE {"ok", "parse_error", "not_found", "http_error"}

\* What a registry holds for a number.  status is the status string as the
\* client's _normalize_status hands it over.
ExternalSamples ==
  { [expiration_date |-> 50, status |-> "registered", registration_date |-> 10,
     goods_services |-> {}, image_url |-> None],
    [expiration_date |-> 400, status |-> "expired", registration_date |-> 10,
     goods_services |-> {<<25, "clothing">>}, image_url |-> "http://registry/image"],
    [expiration_date |-> NoDate, status |-> "unknown wording", registration_date |-> NoDate,
     goods_services |-> {}, image_url |-> None] }

SyncRows ==
  { Registration(TRUE, FALSE, "active", "RU-1", None, 50, "pending", NoDate),
    Registration(TRUE, TRUE, "active", "RU-2", "M-2", 50, "registered", 10),
    Registration(TRUE, TRUE, "active", None, None, NoDate, "registered", NoDate),
    Registration(TRUE, FALSE, "not_renewing", "RU-4", None, 50, "registered", 10),
    Registration(FALSE, TRUE, "active", None, "M-5", 120, "registered", 10) }

\* A row of trademarks with its trademark_classes rows (class, description).
NewTrademark ==
  [image_path |-> None, image_source |-> None, classes |-> {<<25, "apparel">>}]

\* The dict `changes`; <<>> and {} stand for an absent key.  The dict is
\* stored in changes_detected, where an empty one is stored as None.
NoChanges ==
  [expiration_date |-> <<>>, status |-> <<>>, registration_date |-> <<>>,
   goods_services_updated |-> {}, image |-> <<>>]

\* str.lower() on the status texts of the model.
lower(st) ==
  CASE st = "Active" -> "active"
    [] st = "Registered" -> "registered"
    [] st = "Lapsed" -> "lapsed"
    [] st = "Opposed" -> "opposed"
    [] st = "Cancelled" -> "cancelled"
    [] OTHER -> st

\* `any(word in status_lower for word in words)`; the status texts of the
\* model are single words, so a word is in the text when it is the text.
HasWord(st, words) == lower(st) \in words

\* FIPSScraper._normalize_status / WIPOClient._normalize_status (the words
\* in Latin script): a text with none of the words is returned as it is.
normalize_status(k, st) ==
  IF k = "fips"
  THEN CASE HasWord(st, {"active"}) -> "registered"
         [] HasWord(st, {"terminated"}) -> "terminated"
         [] HasWord(st, {"expired"}) -> "expired"
         [] HasWord(st, {"pending"}) -> "pending"
         [] HasWord(st, {"rejected"}) -> "rejected"
         [] OTHER -> st
  ELSE CASE HasWord(st, {"active", "registered", "protected"}) -> "registered"
         [] HasWord(st, {"expired", "lapsed"}) -> "expired"
         [] HasWord(st, {"pending", "examination"}) -> "pending"
         [] HasWord(st, {"refused", "rejected"}) -> "rejected"
         [] HasWord(st, {"terminated", "cancelled"}) -> "terminated"
         [] OTHER -> st

\* A mapping that takes over a status it does not know.
map_status_verbatim(st) ==
  CASE lower(st) = "expired" -> "terminated"
    [] OTHER -> lower(st)

\* _map_fips_status and _map_wipo_status: the same table, looked up with
\* the lower-cased status.
map_status(st) ==
  CASE lower(st) \in {"registered", "pending", "rejected", "terminated"} -> lower(st)
    [] lower(st) = "expired" -> "terminated"
    [] OTHER -> None

\* The status texts the registries show, and what the registries hold for
\* a number in the status specification: per client, the record with the
\* text as the client's _normalize_status hands it over.
RawStatuses == {"Active", "Registered", "Lapsed", "Opposed", "Cancelled"}

StatusSample(k, raw) ==
  [expiration_date |-> 50, status |-> normalize_status(k, raw), registration_date |-> 10,
   goods_services |-> {<<25, "clothing">>}, image_url |-> "http://registry/image"]

\* The comparisons of _update_registration_from_fips / _from_wipo.
NewExpiration(reg, rec) ==
  rec.expiration_date # NoDate /\ rec.expiration_date # reg.expiration_date

NewStatus(reg, rec) ==
  /\ rec.status # None
  /\ map_status(rec.status) # None
  /\ map_status(rec.status) # reg.status

NewRegistrationDate(k, reg, rec) ==
  /\ k = "fips"
  /\ rec.registration_date # NoDate
  /\ rec.registration_date # reg.registration_date

\* The dict returned by _update_registration_from_fips / _from_wipo.
update_changes(k, reg, rec) ==
  [expiration_date |->
     IF NewExpiration(reg, rec) THEN <<reg.expiration_date, rec.expiration_date>> ELSE <<>>,
   status |->
     IF NewStatus(reg, rec) THEN <<reg.status, map_status(rec.status)>> ELSE <<>>,
   registration_date |->
     IF NewRegistrationDate(k, reg, rec)
     THEN <<reg.registration_date, rec.registration_date>> ELSE <<>>,
   goods_services_updated |->
     IF k = "fips" THEN {g[1] : g \in rec.goods_services} ELSE {},
   image |-> <<>>]

\* An update that takes a later expiration date at the registry for a
\* renewal and makes the row active again.
update_registration_reactivating(k, reg, rec, at) ==
  [reg EXCEPT
     !.expiration_date = IF NewExpiration(reg, rec) THEN rec.expiration_date ELSE @,
     !.status = IF NewStatus(reg, rec) THEN map_status(rec.status) ELSE @,
     !.registration_date =
        IF NewRegistrationDate(k, reg, rec) THEN rec.registration_date ELSE @,
     !.renewal_status = IF NewExpiration(reg, rec) THEN RenewalStatus.ACTIVE ELSE @,
     !.last_sync_at = at,
     !.last_sync_source = k]

\* An update that stamps the row only when a field has changed.
update_registration_stamp_on_change(k, reg, rec, at) ==
  LET changed == \/ NewExpiration(reg, rec)
                 \/ NewStatus(reg, rec)
                 \/ NewRegistrationDate(k, reg, rec)
  IN [reg EXCEPT
        !.expiration_date = IF NewExpiration(reg, rec) THEN rec.expiration_date ELSE @,
        !.status = IF NewStatus(reg, rec) THEN map_status(rec.status) ELSE @,
        !.registration_date =
           IF NewRegistrationDate(k, reg, rec) THEN rec.registration_date ELSE @,
        !.last_sync_at = IF changed THEN at ELSE @,
        !.last_sync_source = IF changed THEN k ELSE @]

\* The row as _update_registration_from_fips / _from_wipo commits it.
\* `at` is datetime.now().
update_registration(k, reg, rec, at) ==
  [reg EXCEPT
     !.expiration_date = IF NewExpiration(reg, rec) THEN rec.expiration_date ELSE @,
     !.status = IF NewStatus(reg, rec) THEN map_status(rec.status) ELSE @,
     !.registration_date =
        IF NewRegistrationDate(k, reg, rec) THEN rec.registration_date ELSE @,
     !.last_sync_at = at,
     !.last_sync_source = k]

\* A merge that makes the classes of the trademark those of the record.
update_goods_services_replacing(classes, goods) == goods

\* What FIPS holds for a number in the goods specification: the record with
\* the descriptions of the classes in GoodsSets.
GoodsSets ==
  { {},
    {<<25, "clothing">>},
    {<<35, "advertising">>},
    {<<25, "clothing">>, <<35, "advertising">>} }

GoodsSample(goods) ==
  [expiration_date |-> 50, status |-> "registered", registration_date |-> 10,
   goods_services |-> goods, image_url |-> "http://registry/image"]

\* _update_goods_services: the description of a class the record names is
\* replaced, a class the trademark lacks is added, the others stay.
update_goods_services(classes, goods) ==
  {c \in classes : ~(\E g \in goods : g[1] = c[1])} \cup goods

\* The number looked up, or None when the sync is skipped.
lookup_key(k, reg) ==
  IF k = "fips" THEN reg.registration_number
  ELSE IF reg.madrid_registration_number # None THEN reg.madrid_registration_number
  ELSE reg.registration_number

\* One network call of get_trademark_by_number, the clock left out: through
\* the gate, the call, its response, and the backoff sleep when the attempt
\* ended on an exception.
CallStep(k, fs, n, resp, ext) ==
  LET g == AfterGate(k, fs)
      c == IF g.step = "page" THEN [g EXCEPT !.step = "call", !.ncalls = @ + 1] ELSE g
      d == Respond(k, c, n, resp, ext)
  IN IF d.step = "backoff" THEN AfterBackoff(d) ELSE d

\* get_trademark_by_number run to its return: the fetch states it can end
\* in from fs, over all the responses the network can give to its calls.
RECURSIVE FetchResults(_, _, _, _)
FetchResults(k, fs, n, ext) ==
  IF fs.step = "done" THEN {fs}
  ELSE UNION {FetchResults(k, CallStep(k, fs, n, resp, ext), n, ext) :
                resp \in SyncResponses(k, fs.phase)}

\* History of a fetch: what it did once the source had answered "not found"
\* ("never" when the source did not): it returned without a further network
\* call, or it went on calling.
AfterNotFound(fs) ==
  IF fs.nfAt = -1 THEN "never"
  ELSE IF fs.ncalls = fs.nfAt THEN "returned" ELSE "went_on"

\* What get_trademark_by_number(number) of a fresh client can return, per
\* client and per state of the registry: the record, and what the fetch did
\* after a "not found" answer.
FetchTable ==
  [k \in Kinds |->
     [ext \in ExternalSamples \cup {StatusSample(k, raw) : raw \in RawStatuses}
                \cup {GoodsSample(goods) : goods \in GoodsSets} |->
        {[rec |-> fs.rec, after_not_found |-> AfterNotFound(fs)] :
           fs \in FetchResults(k, NewFetch(DefaultRetries), DefaultRetries, ext)}]]

\* A SyncLog row written by _log_sync_result.
SyncLog(r, k, st, changes, err) ==
  [registration_id |-> r, source |-> k, operation |-> "status_check", status |-> st,
   changes_detected |-> changes, error_message |-> err]

\* The same ORDER BY with the rows without an expiration date first.
SortsBefore_nulls_first(a, b) ==
  \/ a.expiration_date < b.expiration_date
  \/ a.expiration_date = b.expiration_date /\ a.last_sync_at < b.last_sync_at

\* ORDER BY expiration_date ASC NULLS LAST, last_sync_at ASC NULLS FIRST:
\* row a must come before row b.
SortsBefore(a, b) ==
  \/ a.expiration_date # NoDate /\ b.expiration_date = NoDate
  \/ a.expiration_date # NoDate /\ b.expiration_date # NoDate
       /\ a.expiration_date < b.expiration_date
  \/ a.expiration_date = b.expiration_date /\ a.last_sync_at < b.last_sync_at

\* ORDER BY expiration_date ASC of sync_priority_registrations.
ExpiresBefore(a, b) == a.expiration_date < b.expiration_date

\* The WHERE clause of _get_registrations_for_sync.
Eligible(k, reg) ==
  /\ IF k = "fips" THEN reg.is_national ELSE reg.is_international
  /\ reg.renewal_status = RenewalStatus.ACTIVE

\* The sequences over the rows `ids` in which no row stands behind a row it
\* must come before; `full` tells the two-key order of
\* _get_registrations_for_sync from the one-key order of sync_priority.
Orderings(ids, full) ==
  {q \in [1..Cardinality(ids) -> ids] :
     /\ \A i, j \in 1..Cardinality(ids) : i # j => q[i] # q[j]
     /\ \A i, j \in 1..Cardinality(ids) :
          i < j => ~(IF full THEN SortsBefore(regs[q[j]], regs[q[i]])
                     ELSE ExpiresBefore(regs[q[j]], regs[q[i]]))}

Prefix(q, limit) == SubSeq(q, 1, IF Len(q) < limit THEN Len(q) ELSE limit)

\* _get_registrations_for_sync(source, limit): the lists the query can return.
get_registrations_for_sync(k, limit) ==
  {Prefix(q, limit) : q \in Orderings({r \in Regs : Eligible(k, regs[r])}, TRUE)}

\* A query of sync_priority_registrations without the two conditions on
\* the expiration date.
PriorityEligible_no_horizon(k, reg) ==
  Eligible(k, reg) /\ reg.expiration_date # NoDate

\* The two queries of sync_priority_registrations.
PriorityEligible(k, reg) ==
  /\ Eligible(k, reg)
  /\ reg.expiration_date # NoDate
  /\ reg.expiration_date <= today + 180
  /\ reg.expiration_date >= today

priority_registrations(k) ==
  Orderings({r \in Regs : PriorityEligible(k, regs[r])}, FALSE)

\* A sync that does not look at the error of the record.
has_error_ignored(rec) == FALSE

\* `if fips_data.error:` / `if wipo_data.error:` in the per-registration sync.
has_error(rec) == rec.error # None

\* A loop that stops at the first row whose sync reports an error.
remaining_after_abort(queue, outcome) == IF outcome = "error" THEN <<>> ELSE queue

\* The `for registration in registrations:` loop of a task after the sync of
\* one row has returned (or raised: the body is in try/except): it goes on
\* with the rows that remain, whatever the outcome.
remaining_after(queue, outcome) == queue

\* The dict `results` of a task, per source.  sync_fips_trademarks and
\* sync_wipo_trademarks keep the six counters of their source,
\* sync_priority_registrations keeps total, updated and errors of each.
NoResults ==
  [k \in Kinds |-> [total |-> 0, synced |-> 0, updated |-> 0, unchanged |-> 0,
                    errors |-> 0, skipped |-> 0]]

\* The body of the `for` loop of a task after the sync of a row of source k
\* has returned `outcome`: the branches that count it.
tally(entry, k, results, outcome) ==
  IF entry = "batch"
  THEN [results EXCEPT
          ![k].updated = IF outcome = "updated" THEN @ + 1 ELSE @,
          ![k].unchanged = IF outcome = "unchanged" THEN @ + 1 ELSE @,
          ![k].errors = IF outcome = "error" THEN @ + 1 ELSE @,
          ![k].skipped = IF outcome \notin {"updated", "unchanged", "error"} THEN @ + 1 ELSE @,
          ![k].synced = @ + 1]
  ELSE IF entry = "priority"
  THEN [results EXCEPT ![k].updated = IF outcome = "updated" THEN @ + 1 ELSE @]
  ELSE results

\* The task the worker runs.  entry, limit, selected, attempted and outcomes
\* are history: the task, its argument, the list it read at its start, the
\* rows whose sync has returned so far and what their syncs returned.
IdleJob ==
  [pc |-> "idle", kind |-> None, queue |-> <<>>, later |-> <<>>,
   cur |-> None, rec |-> EmptyRec(None), after_not_found |-> "never", before |-> None,
   log0 |-> 0, changes |-> NoChanges,
   entry |-> None, limit |-> 0, selected |-> <<>>, attempted |-> <<>>,
   results |-> NoResults, outcomes |-> <<>>]

NoAttempt ==
  [n |-> 0, registration_id |-> None, kind |-> None, outcome |-> "none"]

SyncInit0 ==
  /\ today = Instants[1]
  /\ instant = 1
  /\ regs \in {f \in [Regs -> SyncRows] :
                 f["r2"].is_national /\ f["r2"].is_international /\ f["r2"].expiration_date # NoDate}
  /\ trademarks = [r \in Regs |-> NewTrademark]
  /\ external \in {[k \in Kinds |-> e] : e \in ExternalSamples}
  /\ sync_logs = <<>>
  /\ job = IdleJob
  /\ attempts = 0
  /\ last_attempt = NoAttempt
  /\ prev_attempt = NoAttempt

SyncInit == SyncInit0 /\ ClientParked /\ SweepParked

\* A task is taken up by the worker with the list of rows it will sync.
StartJob(entry, limit, k, queue, later) ==
  /\ job.pc = "idle"
  /\ attempts + Len(queue) + Len(later) <= MaxAttempts
  /\ job' = [IdleJob EXCEPT !.pc = "next", !.kind = k,
                            !.queue = queue, !.later = later,
                            !.entry = entry, !.limit = limit, !.selected = queue,
                            !.results = IF entry = "single" THEN @
                                        ELSE [@ EXCEPT ![k].total = Len(queue),
                                                       !["wipo"].total =
                                                          IF k = "wipo" THEN Len(queue)
                                                          ELSE Len(later)]]
  /\ UNCHANGED <<regs, trademarks, external, sync_logs, attempts, last_attempt,
                 prev_attempt>>
  /\ UNCHANGED nonSyncVars

\* sync_single_registration(registration_id, source)
sync_single_registration(r, k) ==
  /\ job.pc = "idle"
  /\ StartJob("single", 1, k, <<r>>, <<>>)

\* sync_fips_trademarks(limit)
sync_fips_trademarks(limit) ==
  /\ job.pc = "idle"
  /\ \E q \in get_registrations_for_sync("fips", limit) : StartJob("batch", limit, "fips", q, <<>>)

\* sync_wipo_trademarks(limit)
sync_wipo_trademarks(limit) ==
  /\ job.pc = "idle"
  /\ \E q \in get_registrations_for_sync("wipo", limit) : StartJob("batch", limit, "wipo", q, <<>>)

\* sync_priority_registrations(): both lists are read first, then the FIPS
\* list is synced, then the WIPO list.
sync_priority_registrations ==
  /\ job.pc = "idle"
  /\ \E qf \in priority_registrations("fips"), qw \in priority_registrations("wipo") :
       StartJob("priority", 0, "fips", qf, qw)

\* The weekly sweeps the model follows.
MaxSweeps == 1

\* The rows of sync_logs written by full_reconciliation.
SystemLogs == {i \in DOMAIN sync_logs : sync_logs[i].source = "system"}

\* A reconciliation that counts every row, whatever its renewal status.
full_reconciliation_all_rows ==
  /\ job.pc = "idle"
  /\ Cardinality(SystemLogs) < MaxSweeps
  /\ LET results == [fips_checked |-> Cardinality({r \in Regs : regs[r].is_national}),
                     wipo_checked |-> Cardinality({r \in Regs : regs[r].is_international}),
                     discrepancies_found |-> 0, errors |-> 0]
     IN sync_logs' = Append(sync_logs,
                            [registration_id |-> None, source |-> "system",
                             operation |-> "reconciliation", status |-> "completed",
                             changes_detected |-> results, error_message |-> None])
  /\ UNCHANGED <<regs, trademarks, external, job, attempts, last_attempt, prev_attempt>>
  /\ UNCHANGED nonSyncVars

\* full_reconciliation(): the active rows are counted per source and one
\* entry of source "system" is logged; no row is written.
full_reconciliation ==
  /\ job.pc = "idle"
  /\ Cardinality(SystemLogs) < MaxSweeps
  /\ LET active_rows == {r \in Regs : regs[r].renewal_status = RenewalStatus.ACTIVE}
         results == [fips_checked |-> Cardinality({r \in active_rows : regs[r].is_national}),
                     wipo_checked |-> Cardinality({r \in active_rows : regs[r].is_international}),
                     discrepancies_found |-> 0, errors |-> 0]
     IN sync_logs' = Append(sync_logs,
                            [registration_id |-> None, source |-> "system",
                             operation |-> "reconciliation", status |-> "completed",
                             changes_detected |-> results, error_message |-> None])
  /\ UNCHANGED <<regs, trademarks, external, job, attempts, last_attempt, prev_attempt>>
  /\ UNCHANGED nonSyncVars

\* The history of a per-registration sync that has just returned.
AttemptRecord(r, k, outcome, rec, after_nf, before, after, newlogs, changes) ==
  [n |-> attempts, registration_id |-> r, kind |-> k, outcome |-> outcome,
   rec_error |-> rec.error, after_not_found |-> after_nf,
   mutated |-> (after # before),
   nlogs |-> Len(newlogs),
   log_status |-> IF newlogs = <<>> THEN None ELSE newlogs[Len(newlogs)].status,
   log_error |-> IF newlogs = <<>> THEN None ELSE newlogs[Len(newlogs)].error_message,
   changes |-> changes]

\* _sync_fips_registration / _sync_wipo_registration returns.
Return(outcome, changes) ==
  LET r == job.cur IN
    /\ prev_attempt' = last_attempt
    /\ last_attempt' = AttemptRecord(r, job.kind, outcome, job.rec, job.after_not_found,
                                     job.before, regs'[r],
                                     SubSeq(sync_logs', job.log0 + 1, Len(sync_logs')),
                                     changes)
    /\ job' = [job EXCEPT !.pc = "next", !.cur = None, !.rec = EmptyRec(None),
                          !.after_not_found = "never", !.before = None,
                          !.log0 = 0, !.changes = NoChanges,
                          !.queue = remaining_after(@, outcome),
                          !.attempted = Append(@, r),
                          !.results = tally(job.entry, job.kind, @, outcome),
                          !.outcomes = Append(@, outcome)]

\* The loop of a task reaches its next registration, whose sync begins: the
\* lookup key is read, and without one the sync returns "skipped".
AttemptStart ==
  /\ job.pc = "next"
  /\ job.queue # <<>>
  /\ attempts < MaxAttempts
  /\ attempts' = attempts + 1
  /\ LET r == Head(job.queue) IN
       IF lookup_key(job.kind, regs[r]) = None
       THEN /\ prev_attempt' = last_attempt
            /\ last_attempt' = AttemptRecord(r, job.kind, "skipped", EmptyRec(None), "never", regs[r],
                                             regs[r], <<>>, NoChanges)
            /\ job' = [job EXCEPT !.queue = remaining_after(Tail(@), "skipped"),
                                  !.attempted = Append(@, r),
                                  !.results = tally(job.entry, job.kind, @, "skipped"),
                                  !.outcomes = Append(@, "skipped")]
       ELSE /\ job' = [job EXCEPT !.queue = Tail(@), !.pc = "fetch", !.cur = r,
                                  !.rec = EmptyRec(None), !.after_not_found = "never",
                                  !.before = regs[r],
                                  !.log0 = Len(sync_logs), !.changes = NoChanges]
            /\ UNCHANGED <<last_attempt, prev_attempt>>
  /\ UNCHANGED <<regs, trademarks, external, sync_logs>>
  /\ UNCHANGED nonSyncVars

\* The list of a task is used up: sync_priority goes on to its WIPO list (the
\* list it read at its start), any other task returns.
JobEnd ==
  /\ job.pc = "next"
  /\ job.queue = <<>>
  /\ job' = IF job.later # <<>>
            THEN [job EXCEPT !.kind = "wipo", !.queue = job.later, !.later = <<>>,
                             !.selected = job.later, !.attempted = <<>>,
                             !.outcomes = <<>>]
            ELSE IdleJob
  /\ UNCHANGED <<regs, trademarks, external, sync_logs, attempts, last_attempt,
                 prev_attempt>>
  /\ UNCHANGED nonSyncVars

\* `await scraper.get_trademark_by_number(reg_number)`: the fetch runs to its
\* return.
FetchCall ==
  /\ job.pc = "fetch"
  /\ \E o \in FetchTable[job.kind][external[job.kind]] :
       job' = [job EXCEPT !.pc = "fetched", !.rec = o.rec,
                          !.after_not_found = o.after_not_found]
  /\ UNCHANGED <<regs, trademarks, external, sync_logs, attempts, last_attempt,
                 prev_attempt>>
  /\ UNCHANGED nonSyncVars

\* An exception inside the try block of the per-registration sync (the
\* browser or the HTTP client cannot be started): the except branch logs a
\* failed entry with the text of the exception, the sync returns "error".
SyncRaises ==
  /\ job.pc = "fetch"
  /\ sync_logs' = Append(sync_logs, SyncLog(job.cur, job.kind, "failed", NoChanges,
                                            "exception"))
  /\ UNCHANGED <<regs, trademarks, external, attempts>>
  /\ Return("error", NoChanges)
  /\ UNCHANGED nonSyncVars

\* The record came back with an error: a failed entry is logged, the sync
\* returns "error".
FetchFailed ==
  /\ job.pc = "fetched"
  /\ has_error(job.rec)
  /\ sync_logs' = Append(sync_logs, SyncLog(job.cur, job.kind, "failed", NoChanges,
                                            job.rec.error))
  /\ UNCHANGED <<regs, trademarks, external, attempts>>
  /\ Return("error", NoChanges)
  /\ UNCHANGED nonSyncVars

\* _update_registration_from_fips / _from_wipo up to its commit.
UpdateRegistration ==
  /\ job.pc = "fetched"
  /\ ~has_error(job.rec)
  /\ LET rec == job.rec
         reg == regs[job.cur]
     IN /\ regs' = [regs EXCEPT ![job.cur] = update_registration(job.kind, reg, rec, attempts)]
        /\ job' = [job EXCEPT
                     !.changes = update_changes(job.kind, reg, rec),
                     !.pc = IF job.kind = "fips" /\ rec.goods_services # {} THEN "goods"
                            ELSE IF rec.image_url # None THEN "image" ELSE "log"]
  /\ UNCHANGED <<trademarks, external, sync_logs, attempts, last_attempt, prev_attempt>>
  /\ UNCHANGED nonSyncVars

\* _update_goods_services, called when the FIPS record has descriptions.
UpdateGoodsServices ==
  /\ job.pc = "goods"
  /\ trademarks' = [trademarks EXCEPT ![job.cur].classes =
                      update_goods_services(@, job.rec.goods_services)]
  /\ job' = [job EXCEPT !.pc = IF job.rec.image_url # None THEN "image" ELSE "log"]
  /\ UNCHANGED <<regs, external, sync_logs, attempts, last_attempt, prev_attempt>>
  /\ UNCHANGED nonSyncVars

\* A failure of the image storage that undoes the update of the row.
after_image_failure_rollback(reg, before) == before

\* The row after the image storage has failed: the session of
\* _update_registration_from_fips / _from_wipo has committed before the
\* storage is called, so the row stays as that session left it.
after_image_failure(reg, before) == reg

\* download_and_upload_image, then the update of the trademark: the storage
\* returns the stored path, or None when the download or the upload failed.
StoreImage ==
  /\ job.pc = "image"
  /\ \E stored_path \in {None, "trademarks/image"} :
       IF stored_path # None
       THEN /\ trademarks' = [trademarks EXCEPT ![job.cur].image_path = stored_path,
                                                ![job.cur].image_source = job.kind]
            /\ job' = [job EXCEPT !.pc = "log", !.changes.image = <<stored_path>>]
            /\ UNCHANGED regs
       ELSE /\ job' = [job EXCEPT !.pc = "log"]
            /\ regs' = [regs EXCEPT ![job.cur] = after_image_failure(@, job.before)]
            /\ UNCHANGED trademarks
  /\ UNCHANGED <<external, sync_logs, attempts, last_attempt, prev_attempt>>
  /\ UNCHANGED nonSyncVars

\* An exception inside the `async with MinIOStorage()` block (the close of
\* the storage's HTTP client, the update of the trademark row): the except
\* branch of the sync logs a failed entry and the sync returns "error"; the
\* dict `changes` has not reached the result.
ImageRaises ==
  /\ job.pc = "image"
  /\ regs' = [regs EXCEPT ![job.cur] = after_image_failure(@, job.before)]
  /\ sync_logs' = Append(sync_logs, SyncLog(job.cur, job.kind, "failed", NoChanges,
                                            "exception"))
  /\ UNCHANGED <<trademarks, external, attempts>>
  /\ Return("error", NoChanges)
  /\ UNCHANGED nonSyncVars

\* The success entry is logged, the sync returns "updated" or "unchanged".
LogSuccess ==
  /\ job.pc = "log"
  /\ sync_logs' = Append(sync_logs, SyncLog(job.cur, job.kind, "success", job.changes, None))
  /\ UNCHANGED <<regs, trademarks, external, attempts>>
  /\ Return(IF job.changes # NoChanges THEN "updated" ELSE "unchanged", job.changes)
  /\ UNCHANGED nonSyncVars

SyncNext ==
  \/ \E r \in Regs, k \in Kinds : sync_single_registration(r, k)
  \/ \E limit \in 1..MaxLimit : sync_fips_trademarks(limit)
  \/ \E limit \in 1..MaxLimit : sync_wipo_trademarks(limit)
  \/ sync_priority_registrations
  \/ AttemptStart
  \/ JobEnd
  \/ FetchCall
  \/ SyncRaises
  \/ FetchFailed
  \/ UpdateRegistration
  \/ UpdateGoodsServices
  \/ StoreImage
  \/ LogSuccess

SpecSync == SyncInit /\ [][SyncNext]_vars

\* The syncs next to the weekly sweep.
SyncSweepNext ==
  \/ full_reconciliation
  \/ SyncNext

\* Next to an active row flagged for both sources, a row that is not to be
\* renewed; the registries hold a later expiration date and another status
\* than the rows.
SyncSweepInit ==
  /\ SyncInit
  /\ regs["r1"].renewal_status = RenewalStatus.NOT_RENEWING
  /\ \A k \in Kinds : external[k].expiration_date = 400

SpecSyncSweep == SyncSweepInit /\ [][SyncSweepNext]_vars

\* The steps of the worker inside a task.
JobStep ==
  \/ AttemptStart
  \/ JobEnd
  \/ FetchCall
  \/ SyncRaises
  \/ FetchFailed
  \/ UpdateRegistration
  \/ UpdateGoodsServices
  \/ StoreImage
  \/ LogSuccess

\* The worker keeps running the task it has taken: every await of a task has
\* a timeout (page load, HTTP client, sleeps), so a step that can be taken is
\* taken.
\* The tasks that sync a list of rows, on their own.
BatchNext ==
  \/ \E limit \in 1..MaxLimit : sync_fips_trademarks(limit)
  \/ \E limit \in 1..MaxLimit : sync_wipo_trademarks(limit)
  \/ sync_priority_registrations
  \/ JobStep

\* The rows of the sync specification against registries that hold a later
\* expiration date, goods and services and an image.
BatchInit ==
  /\ SyncInit
  /\ \A k \in Kinds : external[k].expiration_date = 400

SpecBatch == BatchInit /\ [][BatchNext]_vars /\ WF_vars(JobStep)

(***************************************************************************)
(* SpecAbort: the sync tasks on a worker whose task can be killed at any   *)
(* point: the hard time limit of Celery (task_time_limit) or the loss of   *)
(* the worker process.  What the sessions have committed stays, what the   *)
(* task held in memory is lost.                                            *)
(***************************************************************************)
\* The task is killed.  The history keeps what the sync of the current row
\* had committed by then.
JobAbort ==
  /\ job.pc # "idle"
  /\ job' = IdleJob
  /\ IF job.cur # None
     THEN /\ prev_attempt' = last_attempt
          /\ last_attempt' = AttemptRecord(job.cur, job.kind, "aborted", job.rec,
                                           job.after_not_found, job.before, regs[job.cur],
                                           SubSeq(sync_logs, job.log0 + 1, Len(sync_logs)),
                                           job.changes)
     ELSE UNCHANGED <<last_attempt, prev_attempt>>
  /\ UNCHANGED <<regs, trademarks, external, sync_logs, attempts>>
  /\ UNCHANGED nonSyncVars

AbortNext ==
  \/ JobAbort
  \/ SyncNext

SpecAbort == SyncInit /\ [][AbortNext]_vars

(***************************************************************************)
(* The candidates of the sync jobs that the beat schedule and the API can  *)
(* start next to each other on a worker pool.                              *)
(***************************************************************************)
SyncJobs == {"national", "international", "priority"}

\* The rows the query of a job selects from the table as it stands.
Candidates(j) ==
  CASE j = "national" -> {r \in Regs : Eligible("fips", regs[r])}
    [] j = "international" -> {r \in Regs : Eligible("wipo", regs[r])}
    [] OTHER -> {r \in Regs : PriorityEligible("fips", regs[r])
                                \/ PriorityEligible("wipo", regs[r])}

(***************************************************************************)
(* SpecStatus: the sync tasks against registries that show the status      *)
(* texts of RawStatuses for the numbers of two rows.                       *)
(***************************************************************************)
StatusInit0 ==
  /\ today = Instants[1]
  /\ instant = 1
  /\ regs = [r \in Regs |->
               IF r = "r1"
               THEN Registration(TRUE, FALSE, "active", "RU-1", None, 400, "pending", NoDate)
               ELSE Registration(TRUE, TRUE, "active", "RU-2", "M-2", 50, "registered", 10)]
  /\ trademarks = [r \in Regs |-> NewTrademark]
  /\ external \in {[k \in Kinds |-> StatusSample(k, raw)] : raw \in RawStatuses}
  /\ sync_logs = <<>>
  /\ job = IdleJob
  /\ attempts = 0
  /\ last_attempt = NoAttempt
  /\ prev_attempt = NoAttempt

StatusInit == StatusInit0 /\ ClientParked /\ SweepParked

SpecStatus == StatusInit /\ [][SyncNext]_vars

(***************************************************************************)
(* SpecPriority: sync_priority_registrations on its own, over rows inside  *)
(* and outside its filter, against registries that hold a later expiration *)
(* date.                                                                   *)
(***************************************************************************)
PriorityRows ==
  { Registration(TRUE, FALSE, "active", "RU-1", None, 50, "pending", NoDate),
    Registration(FALSE, TRUE, "active", None, "M-5", 120, "registered", 10),
    Registration(TRUE, TRUE, "active", "RU-2", "M-2", 50, "registered", 10),
    Registration(TRUE, FALSE, "active", "RU-6", None, 400, "registered", 10),
    Registration(TRUE, FALSE, "active", "RU-7", None, 5, "registered", 10),
    Registration(TRUE, FALSE, "not_renewing", "RU-4", None, 50, "registered", 10),
    Registration(FALSE, TRUE, "active", None, "M-8", NoDate, "registered", NoDate) }

PriorityInit0 ==
  /\ instant = 3
  /\ today = Instants[instant]
  /\ regs \in [Regs -> PriorityRows]
  /\ trademarks = [r \in Regs |-> NewTrademark]
  /\ external \in {[k \in Kinds |-> e] : e \in {x \in ExternalSamples : x.expiration_date = 400}}
  /\ sync_logs = <<>>
  /\ job = IdleJob
  /\ attempts = 0
  /\ last_attempt = NoAttempt
  /\ prev_attempt = NoAttempt

PriorityInit == PriorityInit0 /\ ClientParked /\ SweepParked

PriorityNext ==
  \/ sync_priority_registrations
  \/ JobStep

SpecPriority == PriorityInit /\ [][PriorityNext]_vars

(***************************************************************************)
(* SpecClasses: the class fields of a record.  A text is a sequence of     *)
(* tokens: a number (its digits, read as an integer), the separator "-",   *)
(* or a word.  The niceClasses list of the WIPO JSON API is a sequence of  *)
(* items, each a number or something that is not all digits.               *)
(***************************************************************************)
MaxTokens == 4
MaxItems == 3

Num(n) == [num |-> n, word |-> ""]
Word(w) == [num |-> -1, word |-> w]
IsNum(t) == t.num # -1
IsSep(t) == t = Word("-")

Tokens ==
  {Num(0), Num(25), Num(35), Num(46), Num(125),
   Word("-"), Word("clothing"), Word("advertising")}

\* The text "25 - clothing 35 - advertising".
ScenarioText ==
  <<Num(25), Word("-"), Word("clothing"), Num(35), Word("-"), Word("advertising")>>

Texts == UNION {[1..n -> Tokens] : n \in 0..MaxTokens} \cup {ScenarioText}

\* An item of niceClasses: `str(c).isdigit()` and, when it holds, int(c).
Items == {Num(0), Num(25), Num(35), Num(46), Word("x")}
NiceClasses == UNION {[1..n -> Items] : n \in 0..MaxItems}

\* sorted(set(classes))
Sorted(S) ==
  CHOOSE q \in [1..Cardinality(S) -> S] : \A i, j \in 1..Cardinality(S) : i < j => q[i] < q[j]

\* _parse_classes: every run of digits of the text, as an integer, kept when
\* it is in 1..45; the set of them in ascending order.
parse_classes(text) ==
  Sorted({text[i].num : i \in {j \in 1..Len(text) : IsNum(text[j]) /\ text[j].num \in 1..45}})

\* The end of the run of tokens without a digit that starts at j: the index
\* of the first number at or after j, or Len(text) + 1.
RECURSIVE RunEnd(_, _)
RunEnd(text, j) ==
  IF j > Len(text) \/ IsNum(text[j]) THEN j ELSE RunEnd(text, j + 1)

\* The pattern of _parse_goods_services matches at token i: one or two
\* digits (of a longer number, its last two), a separator, a description
\* without digits that is not empty and is followed by the end of the text
\* or by the next `digits separator`.
MatchesAt(text, i) ==
  /\ i + 1 <= Len(text)
  /\ IsNum(text[i])
  /\ IsSep(text[i + 1])
  /\ LET e == RunEnd(text, i + 2) IN
       /\ e > i + 2
       /\ \/ e > Len(text)
          \/ e + 1 <= Len(text) /\ IsSep(text[e + 1])

\* re.findall from token i on, then the loop over the matches: a match with
\* its class in 1..45 sets result[class]; a later match of the same class
\* replaces the earlier one.  The result is a set of <<class, description>>.
RECURSIVE GoodsFrom(_, _, _)
GoodsFrom(text, i, result) ==
  IF i > Len(text) THEN result
  ELSE IF MatchesAt(text, i)
  THEN LET e == RunEnd(text, i + 2)
           class_num == text[i].num % 100
           description == SubSeq(text, i + 2, e - 1)
       IN GoodsFrom(text, e,
                    IF class_num \in 1..45
                    THEN {g \in result : g[1] # class_num} \cup {<<class_num, description>>}
                    ELSE result)
  ELSE GoodsFrom(text, i + 1, result)

parse_goods_services(text) == GoodsFrom(text, 1, {})

\* _parse_api_response: [int(c) for c in classes if str(c).isdigit()]
api_classes(items) ==
  LET kept == SelectSeq(items, IsNum) IN [i \in 1..Len(kept) |-> kept[i].num]

\* icgs_classes = None / goods_services = None of a new record.
NoParse == [done |-> FALSE, icgs_classes |-> <<>>, goods_services |-> {}]

ClassesInit0 ==
  /\ response \in
       {[client |-> c, text |-> t, items |-> <<>>] : c \in {"fips", "wipo_html"}, t \in Texts}
       \cup {[client |-> "wipo_api", text |-> <<>>, items |-> l] : l \in NiceClasses}
  /\ parsed = NoParse

ClassesInit == ClassesInit0 /\ ClientIdle /\ SweepParked /\ SyncParked
               /\ today = 0 /\ instant = 1 /\ regs = <<>>

\* FIPSScraper._extract_data: `if classes_text:` then both parsers.
ExtractFipsClasses ==
  /\ response.client = "fips"
  /\ ~parsed.done
  /\ parsed' = IF response.text # <<>>
               THEN [done |-> TRUE, icgs_classes |-> parse_classes(response.text),
                     goods_services |-> parse_goods_services(response.text)]
               ELSE [NoParse EXCEPT !.done = TRUE]
  /\ UNCHANGED response
  /\ UNCHANGED nonParseVars

\* WIPOClient._parse_html_response: `if classes_text:` then _parse_classes.
ParseHtmlClasses ==
  /\ response.client = "wipo_html"
  /\ ~parsed.done
  /\ parsed' = IF response.text # <<>>
               THEN [done |-> TRUE, icgs_classes |-> parse_classes(response.text),
                     goods_services |-> {}]
               ELSE [NoParse EXCEPT !.done = TRUE]
  /\ UNCHANGED response
  /\ UNCHANGED nonParseVars

\* WIPOClient._parse_api_response: `if classes:` then the comprehension.
ParseApiClasses ==
  /\ response.client = "wipo_api"
  /\ ~parsed.done
  /\ parsed' = IF response.items # <<>>
               THEN [done |-> TRUE, icgs_classes |-> api_classes(response.items),
                     goods_services |-> {}]
               ELSE [NoParse EXCEPT !.done = TRUE]
  /\ UNCHANGED response
  /\ UNCHANGED nonParseVars

ClassesNext ==
  \/ ExtractFipsClasses
  \/ ParseHtmlClasses
  \/ ParseApiClasses

SpecClasses == ClassesInit /\ [][ClassesNext]_vars

(***************************************************************************)
(* SpecGoods: the sync tasks over trademarks that have the classes 9 and   *)
(* 25, against a registry that describes the classes 25 and 35.            *)
(***************************************************************************)
GoodsInit0 ==
  /\ today = Instants[1]
  /\ instant = 1
  /\ regs = [r \in Regs |->
               IF r = "r1"
               THEN Registration(TRUE, FALSE, "active", "RU-1", None, 400, "pending", NoDate)
               ELSE Registration(TRUE, TRUE, "active", "RU-2", "M-2", 50, "registered", 10)]
  /\ trademarks = [r \in Regs |->
                     [NewTrademark EXCEPT !.classes = {<<9, "software">>, <<25, "apparel">>}]]
  /\ external \in {[k \in Kinds |-> GoodsSample(goods)] : goods \in GoodsSets}
  /\ sync_logs = <<>>
  /\ job = IdleJob
  /\ attempts = 0
  /\ last_attempt = NoAttempt
  /\ prev_attempt = NoAttempt

GoodsInit == GoodsInit0 /\ ClientParked /\ SweepParked

SpecGoods == GoodsInit /\ [][SyncNext]_vars

(***************************************************************************)
(* SpecImage: the tasks that sync a list of rows, with an image storage    *)
(* that can also raise.  The registries hold an image for every number.    *)
(***************************************************************************)
\* The steps of the worker inside a task, the exception of the storage
\* block included.
ImageJobStep ==
  \/ JobStep
  \/ ImageRaises

ImageNext ==
  \/ \E limit \in 1..MaxLimit : sync_fips_trademarks(limit)
  \/ \E limit \in 1..MaxLimit : sync_wipo_trademarks(limit)
  \/ sync_priority_registrations
  \/ ImageJobStep

\* Next to the row flagged for both sources, a national row that expires in
\* 50 days or a row without a lookup key.
ImageInit ==
  /\ BatchInit
  /\ regs["r1"].is_national
  /\ regs["r1"].renewal_status = RenewalStatus.ACTIVE
  /\ regs["r1"].registration_number \in {None, "RU-1"}
  /\ regs["r2"].registration_number = "RU-2"

SpecImage == ImageInit /\ [][ImageNext]_vars /\ WF_vars(ImageJobStep)

(***************************************************************************)
(* SpecRepeat: sync(source, limit) run again and again by the beat         *)
(* schedule, one whole run per step.  The selection reads the rows only,   *)
(* and of last_sync_at only the order: the log table is left out and the   *)
(* timestamps are kept as their ranks, so that a table that sorts the same *)
(* way is the same state.                                                  *)
(***************************************************************************)
\* The rank of the last_sync_at of row r among the timestamps of the table
\* (NULL stays NULL).
SyncRank(table, r) ==
  IF table[r].last_sync_at = NoDate THEN NoDate
  ELSE Cardinality({table[x].last_sync_at : x \in Regs}
                     \cap (0..(table[r].last_sync_at - 1))) + 1

Ranked(table) == [r \in Regs |-> [table[r] EXCEPT !.last_sync_at = SyncRank(table, r)]]

\* A clock reading later than every timestamp of the table.
LaterThanAll(table) ==
  CHOOSE t \in 1..(Cardinality(Regs) + 1) : \A r \in Regs : table[r].last_sync_at < t

\* The per-registration sync of row q[i] with the fetch outcome o, run to
\* its return: a row without a lookup key is skipped, a record with an error
\* leaves the row as it is, any other record is reconciled.
SyncedRow(k, table, q, i, o) ==
  LET reg == table[q[i]] IN
    IF lookup_key(k, reg) = None \/ has_error(o.rec) THEN reg
    ELSE update_registration(k, reg, o.rec, LaterThanAll(table) + i)

\* What that sync returns: "skipped", "error", or "updated" / "unchanged" by
\* the ChangeSet (the image left out).
SyncOutcome(k, reg, o) ==
  IF lookup_key(k, reg) = None THEN "skipped"
  ELSE IF has_error(o.rec) THEN "error"
  ELSE IF update_changes(k, reg, o.rec) # NoChanges THEN "updated"
  ELSE "unchanged"

\* One run of sync_fips_trademarks / sync_wipo_trademarks with the
\* configured limit: the query, then the sync of each selected row; the
\* rows as the run found them and its outcomes are kept until the next one.
RepeatSync ==
  /\ job.pc = "idle"
  /\ \E q \in get_registrations_for_sync(job.kind, job.limit) :
       \E os \in [DOMAIN q -> FetchTable[job.kind][external[job.kind]]] :
         /\ regs' = Ranked([r \in Regs |->
                              IF \E i \in DOMAIN q : q[i] = r
                              THEN SyncedRow(job.kind, regs, q,
                                             CHOOSE i \in DOMAIN q : q[i] = r,
                                             os[CHOOSE i \in DOMAIN q : q[i] = r])
                              ELSE regs[r]])
         /\ job' = [job EXCEPT !.selected = q, !.attempted = q, !.before = regs,
                                !.outcomes = [i \in DOMAIN q |->
                                                SyncOutcome(job.kind, regs[q[i]], os[i])]]
  /\ UNCHANGED <<trademarks, external, sync_logs, attempts, last_attempt, prev_attempt>>
  /\ UNCHANGED nonSyncVars

\* The source and the limit of the schedule entry; the rows and the
\* registries are those of the sync specification.
RepeatInit ==
  /\ today = Instants[1]
  /\ instant = 1
  /\ regs \in [Regs -> SyncRows]
  /\ trademarks = [r \in Regs |-> NewTrademark]
  /\ external \in {[k \in Kinds |-> e] : e \in ExternalSamples}
  /\ sync_logs = <<>>
  /\ \E k \in Kinds, limit \in 1..MaxLimit :
       job = [IdleJob EXCEPT !.kind = k, !.entry = "batch", !.limit = limit,
                             !.before = regs]
  /\ attempts = 0
  /\ last_attempt = NoAttempt
  /\ prev_attempt = NoAttempt
  /\ ClientParked /\ SweepParked

SpecRepeat == RepeatInit /\ [][RepeatSync]_vars /\ WF_vars(RepeatSync)

(***************************************************************************)
(* SpecStatusAlert: the repeated syncs next to the Celery task             *)
(* send_status_change_notification.  The task is registered with the       *)
(* worker; no code of the repository calls it and the beat schedule has no *)
(* entry for it, so it runs only when somebody outside sends it by name.   *)
(***************************************************************************)
MaxStatusAlerts == 1

\* send_status_change_notification for registration r: the alert goes out by
\* e-mail and Telegram; `sent` is TRUE when one of the two delivers.
send_status_change_notification(r, sent) ==
  /\ Cardinality(AlertsOf(r, "status_change")) < MaxStatusAlerts
  /\ alerts' = IF sent THEN alerts \cup {NewAlert(r, "status_change")} ELSE alerts
  /\ UNCHANGED <<admin_emails, notifications, sw, crashes, conc_runs>>
  /\ UNCHANGED <<clientVars, tableVars, syncOnlyVars, parseVars>>

StatusAlertNext ==
  \/ RepeatSync
  \/ \E r \in Regs, sent \in BOOLEAN : send_status_change_notification(r, sent)

SpecStatusAlert == RepeatInit /\ [][StatusAlertNext]_vars /\ WF_vars(RepeatSync)

(***************************************************************************)
(* SpecSweepFail: one run on its own over a database that can fail when    *)
(* the Notification row is inserted.                                       *)
(***************************************************************************)
\* _create_notification raises (the INSERT or its commit fails): nothing in
\* _process_notifications_for_interval or check_expiring_trademarks catches
\* the exception, the task ends with it.
CreateNotificationRaises(w) ==
  /\ sw[w].pc = "create"
  /\ sw' = [sw EXCEPT ![w] = IdleRun]
  /\ UNCHANGED <<today, instant, regs, admin_emails, notifications, alerts, crashes>>
  /\ UNCHANGED <<conc_runs, nonSweepVars>>

SweepFailNext ==
  \/ \E w \in SeqWorkers : RunOnce(w)
  \/ \E w \in SeqWorkers : PassQuery(w)
  \/ \E w \in SeqWorkers : PassEnd(w)
  \/ \E w \in SeqWorkers : LoopStep(w)
  \/ \E w \in SeqWorkers : SendEmail(w)
  \/ \E w \in SeqWorkers : SendTelegram(w)
  \/ \E w \in SeqWorkers : CreateNotification(w)
  \/ \E w \in SeqWorkers : CreateNotificationRaises(w)

SpecSweepFail == OnceInit /\ [][SweepFailNext]_vars

(***************************************************************************)
(* SpecRenewal: the syncs next to the two manual renewal actions of the    *)
(* API.  Of the columns the actions write, the rows of the model keep      *)
(* renewal_status.                                                         *)
(***************************************************************************)
\* POST /registrations/{id}/renewal-filed
mark_renewal_filed(r) ==
  /\ regs' = [regs EXCEPT ![r].renewal_status = RenewalStatus.RENEWAL_FILED]
  /\ UNCHANGED <<today, instant, syncOnlyVars, clientVars, sweepOnlyVars, parseVars>>

\* POST /registrations/{id}/not-renewing
mark_not_renewing(r) ==
  /\ regs' = [regs EXCEPT ![r].renewal_status = RenewalStatus.NOT_RENEWING]
  /\ UNCHANGED <<today, instant, syncOnlyVars, clientVars, sweepOnlyVars, parseVars>>

RenewalNext ==
  \/ \E r \in Regs : mark_renewal_filed(r)
  \/ \E r \in Regs : mark_not_renewing(r)
  \/ SyncNext

SpecRenewal == SyncSweepInit /\ [][RenewalNext]_vars

(***************************************************************************)
(* SpecFetch: get_trademark_by_number on its own, the clock left out.  The *)
(* inputs are the client, the `retries` argument and the responses of the  *)
(* network.                                                                *)
(***************************************************************************)
FetchInit0 ==
  /\ kind \in Kinds
  /\ retries \in 1..DefaultRetries
  /\ now = 0
  /\ last_request_time = 0
  /\ lock = None
  /\ active = [c \in Callers |-> TRUE]
  /\ fetch = [c \in Callers |-> NewFetch(retries)]
  /\ wake = [c \in Callers |-> 0]
  /\ gated = [c \in Callers |-> FALSE]
  /\ prev_call = -1
  /\ last_call = -1
  /\ ungated_call = FALSE
  /\ prev_gate = -1
  /\ last_gate = -1

FetchInit == FetchInit0 /\ TablesParked /\ SweepParked /\ SyncParked

\* The fetch of caller c makes its next network call and handles the response.
FetchStep(c) ==
  /\ fetch[c].step # "done"
  /\ \E resp \in Responses(kind, fetch[c].phase) :
       fetch' = [fetch EXCEPT ![c] = CallStep(kind, @, retries, resp, SampleExt)]
  /\ UNCHANGED <<kind, retries, now, last_request_time, lock, active, wake, gated,
                 prev_call, last_call, ungated_call, prev_gate, last_gate>>
  /\ UNCHANGED nonClientVars

FetchNext == \E c \in Callers : FetchStep(c)

SpecFetch == FetchInit /\ [][FetchNext]_vars

(***************************************************************************)
(* Properties of the sync and of the fetch.                                *)
(***************************************************************************)
Succeeded(a) == a.outcome \in {"updated", "unchanged"}

\* C6: when a registration is fetched successfully twice in a row from the
\* same source, the registry data being the same and nothing else touching
\* the row in between, the second reconciliation finds no change: its
\* outcome is unchanged and changes_detected stays empty.
C6_SecondSyncUnchanged ==
  ( /\ Succeeded(prev_attempt)
    /\ Succeeded(last_attempt)
    /\ prev_attempt.registration_id = last_attempt.registration_id
    /\ prev_attempt.kind = last_attempt.kind )
  => /\ last_attempt.outcome = "unchanged"
     /\ last_attempt.changes = NoChanges

\* C7: after a not-found response the fetch returns at once with the error
\* "not found", without a retry or a further network call; the sync logs one
\* failed entry and leaves the registration as it was.  For both clients.
C7_NotFoundShortCircuits ==
  (last_attempt.outcome # "none" /\ last_attempt.after_not_found # "never")
  => /\ last_attempt.after_not_found = "returned"
     /\ last_attempt.rec_error = "Trademark not found"
     /\ last_attempt.log_status = "failed"
     /\ ~last_attempt.mutated

\* The FIPS half of C7, which the scraper does meet.
FipsNotFoundShortCircuits ==
  (last_attempt.outcome # "none" /\ last_attempt.kind = "fips"
     /\ last_attempt.after_not_found # "never")
  => /\ last_attempt.after_not_found = "returned"
     /\ last_attempt.rec_error = "Trademark not found"
     /\ last_attempt.log_status = "failed"
     /\ ~last_attempt.mutated

\* C8: every per-registration sync of sync, sync_single or sync_priority,
\* whatever its outcome (skipped, updated, unchanged, error), appends
\* exactly one SyncLog entry.
C8_OneLogPerAttempt ==
  last_attempt.outcome # "none" => last_attempt.nlogs = 1

\* C9: a fetched record whose error is set changes nothing in the
\* registration (last_sync_at and last_sync_source included), whatever else
\* the record carries, and the sync appends one failed SyncLog entry whose
\* error_message is the error of the record.
C9_ErrorRecordIgnored ==
  /\ (job.pc \in {"goods", "image", "log"} => job.rec.error = None)
  /\ (last_attempt.outcome # "none" /\ last_attempt.rec_error # None)
     => /\ ~last_attempt.mutated
        /\ last_attempt.outcome = "error"
        /\ last_attempt.nlogs = 1
        /\ last_attempt.log_status = "failed"
        /\ last_attempt.log_error = last_attempt.rec_error

\* A sync has ended on a record of FIPS that carries an extraction error next
\* to an expiration date and a status that differ from the row's.
C9_Witness ==
  /\ last_attempt.outcome = "error"
  /\ last_attempt.kind = "fips"
  /\ last_attempt.rec_error = "Extraction error"
  /\ external["fips"].expiration_date # NoDate
  /\ external["fips"].expiration_date # regs[last_attempt.registration_id].expiration_date
  /\ map_status(external["fips"].status) # regs[last_attempt.registration_id].status

\* C10: a fetch with N = retries attempts never starts an (N+1)-th attempt
\* and makes at most two network calls per attempt; it returns at the attempt
\* that succeeds; and when it returns without a successful attempt, the
\* record it returns has its error set.
C10_FetchBounded ==
  \A c \in Callers :
    /\ fetch[c].started <= retries
    /\ fetch[c].attempt < retries
    /\ fetch[c].ncalls <= 2 * fetch[c].started
    /\ fetch[c].okAt # -1 =>
         /\ fetch[c].step = "done"
         /\ fetch[c].okAt = fetch[c].attempt
         /\ fetch[c].rec.error = None
    /\ (fetch[c].step = "done" /\ fetch[c].okAt = -1) => fetch[c].rec.error # None

\* With the default of three attempts: one fetch has returned the error of
\* its third failed attempt, another has returned the record of its third
\* attempt after two failed ones.
C10_Witness ==
  /\ retries = DefaultRetries
  /\ \E c \in Callers :
       /\ fetch[c].step = "done"
       /\ fetch[c].started = retries
       /\ fetch[c].okAt = -1
       /\ fetch[c].rec.error \in {"Timeout", "Could not fetch data from WIPO"}
  /\ \E c \in Callers :
       /\ fetch[c].step = "done"
       /\ fetch[c].okAt = retries - 1

(***************************************************************************)
(* Properties of the batch tasks.                                          *)
(***************************************************************************)
Range(q) == {q[i] : i \in DOMAIN q}

Min(a, b) == IF a < b THEN a ELSE b

\* Row a stands strictly before row b in the order of the claim: by
\* expiration date, rows without one last; among equal dates by last sync,
\* rows never synced first.
Earlier(a, b) ==
  LET undated(x) == IF x.expiration_date = NoDate THEN 1 ELSE 0
      key(x) == <<undated(x), x.expiration_date, x.last_sync_at>>
  IN \/ key(a)[1] < key(b)[1]
     \/ key(a)[1] = key(b)[1] /\ key(a)[2] < key(b)[2]
     \/ key(a)[1] = key(b)[1] /\ key(a)[2] = key(b)[2] /\ key(a)[3] < key(b)[3]

\* sync_fips_trademarks / sync_wipo_trademarks has read its list and has not
\* begun its first row.
FreshBatch == job.entry = "batch" /\ job.attempted = <<>> /\ job.cur = None

\* The list of a fresh batch is the first `limit` rows of the eligible set.
SelectionIsPrefix ==
  FreshBatch =>
    LET E == {r \in Regs : Eligible(job.kind, regs[r])}
        q == job.selected
    IN /\ Len(q) = Min(job.limit, Cardinality(E))
       /\ Range(q) \subseteq E
       /\ \A i, j \in DOMAIN q : i < j => q[i] # q[j] /\ ~Earlier(regs[q[j]], regs[q[i]])
       /\ \A r \in E \ Range(q) : \A i \in DOMAIN q : ~Earlier(regs[r], regs[q[i]])

\* The rows are taken one at a time, in the order of the list.
InSelectionOrder ==
  job.entry = "batch" =>
    job.selected = job.attempted \o (IF job.cur = None THEN <<>> ELSE <<job.cur>>) \o job.queue

\* A step of a batch writes no row but the one it is syncing.
OnlyCurrentWritten ==
  job.entry = "batch" =>
    \A r \in Regs : regs'[r] # regs[r] => (r = job.cur /\ r \in Range(job.selected))

\* C11: sync(source, limit) attempts exactly the first `limit` rows of the
\* eligible set (flagged for the source, renewal_status active) ordered by
\* expiration date ascending, undated last, then by last sync ascending,
\* never synced first; it takes them one at a time in that order and
\* neither fetches nor writes a row outside that list.
C11_BatchSelection ==
  /\ []SelectionIsPrefix
  /\ []InSelectionOrder
  /\ [][OnlyCurrentWritten]_vars

\* A batch with limit 1 has synced and written its one row while another
\* eligible row was left out.
C11_Witness ==
  /\ job.entry = "batch"
  /\ job.limit = 1
  /\ job.selected # <<>>
  /\ job.attempted = job.selected
  /\ last_attempt.mutated
  /\ \E r \in Regs \ Range(job.selected) : Eligible(job.kind, regs[r])

\* A task returns only when its list is used up and every row of the list
\* has been attempted.
ReturnsComplete ==
  (job.pc # "idle" /\ job'.pc = "idle") =>
    (job.queue = <<>> /\ job.later = <<>> /\ job.attempted = job.selected)

\* The rows attempted so far are the head of the list, in its order.
AttemptedIsHead ==
  /\ Len(job.attempted) <= Len(job.selected)
  /\ job.attempted = SubSeq(job.selected, 1, Len(job.attempted))

\* C12: a failure on one row (an error outcome, an exception) never aborts
\* the batch: every row of the list the task read is eventually attempted,
\* in the order of the list (the rows attempted are always the head of the
\* list, the task returns only with the whole list attempted, and it does
\* return).
C12_BatchCompletes ==
  /\ []AttemptedIsHead
  /\ [][ReturnsComplete]_vars
  /\ (job.pc # "idle") ~> (job.pc = "idle")

\* The first row of a batch of two failed and the second row has been
\* attempted.
C12_Witness ==
  /\ job.entry \in {"batch", "priority"}
  /\ Len(job.attempted) = 2
  /\ prev_attempt.outcome = "error"
  /\ prev_attempt.registration_id = job.attempted[1]
  /\ last_attempt.registration_id = job.attempted[2]

(***************************************************************************)
(* Properties of the reconciliation.                                       *)
(***************************************************************************)
RenewalStatusKept ==
  \A r \in Regs : regs'[r].renewal_status = regs[r].renewal_status

\* C13: no step of a sync operation (sync_fips_trademarks,
\* sync_wipo_trademarks, sync_single_registration,
\* sync_priority_registrations, full_reconciliation) changes the
\* renewal_status of a registration.
C13_RenewalStatusFrame == [][RenewalStatusKept]_vars

\* A sync has written a row whose renewal_status is not active, and the
\* weekly sweep has run.
C13_Witness ==
  /\ last_attempt.outcome = "updated"
  /\ last_attempt.mutated
  /\ regs[last_attempt.registration_id].renewal_status = RenewalStatus.NOT_RENEWING
  /\ SystemLogs # {}

\* The entry the claim gives a field: the {old, new} pair when the value of
\* the record is there and differs from the stored one, none otherwise.
ExpectedEntry(old, new, absent) ==
  IF new # absent /\ new # old THEN <<old, new>> ELSE <<>>

\* The reconciliation of the row being synced has been committed.
Reconciled == job.pc \in {"goods", "image", "log"}

\* The three fields of the ChangeSet follow the rule (the status of the
\* record is its value in the lookup table, absent when it has none).
FieldRule ==
  LET reg == job.before
      rec == job.rec
      st == IF rec.status = None THEN None ELSE map_status(rec.status)
  IN /\ job.changes.expiration_date =
          ExpectedEntry(reg.expiration_date, rec.expiration_date, NoDate)
     /\ job.changes.status = ExpectedEntry(reg.status, st, None)
     /\ job.changes.registration_date =
          ExpectedEntry(reg.registration_date, rec.registration_date, NoDate)

\* C14: reconciling a row against an error-free record from either source
\* puts expiration date, status and registration date into the ChangeSet
\* with the pair {old, new} if and only if the value of the record is
\* non-null and differs from the stored value.
C14_ChangeSetFields == Reconciled => FieldRule

\* The rule holds for the records of FIPS.
FipsChangeSetFields == (Reconciled /\ job.kind = "fips") => FieldRule

\* C15: every successful fetch (a record without error) for a registration
\* sets its last_sync_at to the current time and its last_sync_source to the
\* source fetched from, whether or not the ChangeSet is empty.
C15_SyncStamp ==
  /\ \A r \in Regs :
       (Reconciled /\ job.cur = r) =>
          /\ regs[r].last_sync_at = attempts
          /\ regs[r].last_sync_source = job.kind
  /\ (job.cur = None /\ last_attempt.n = attempts /\ last_attempt.n > 0
        /\ last_attempt.outcome # "skipped" /\ last_attempt.rec_error = None
        /\ last_attempt.log_error = None) =>
       /\ regs[last_attempt.registration_id].last_sync_at = attempts
       /\ regs[last_attempt.registration_id].last_sync_source = last_attempt.kind

\* A row synced before from the other source has been reconciled again with
\* an empty ChangeSet, and carries the new stamp.
C15_Witness ==
  /\ Reconciled
  /\ job.changes = NoChanges
  /\ job.before.last_sync_at # NoDate
  /\ job.before.last_sync_source # job.kind
  /\ regs[job.cur].last_sync_at > job.before.last_sync_at

\* The attempt had a number to look up.
HadKey(a) == lookup_key(a.kind, regs[a.registration_id]) # None

\* The fetch of the attempt failed: its record carries an error, or the
\* client could not be started.
FetchFailure(a) == a.rec_error # None \/ a.log_error = "exception"

\* The ChangeSet of the attempt: the changes without the stored image, which
\* is a side effect on the trademark.
ChangeSetOf(a) == [a.changes EXCEPT !.image = <<>>]

\* The outcome of attempt a is the one the four rules give, `applied`
\* telling whether a non-empty ChangeSet was applied.
OutcomeRule(a, applied) ==
  /\ a.outcome \in {"skipped", "updated", "unchanged", "error"}
  /\ (a.outcome = "skipped") <=> ~HadKey(a)
  /\ (a.outcome = "skipped") => (a.rec_error = None /\ a.after_not_found = "never")
  /\ (a.outcome = "error") <=> (HadKey(a) /\ FetchFailure(a))
  /\ (a.outcome = "updated") <=> (HadKey(a) /\ ~FetchFailure(a) /\ applied)
  /\ (a.outcome = "unchanged") <=> (HadKey(a) /\ ~FetchFailure(a) /\ ~applied)

\* C16: the outcome of every registration a sync handles is exactly one of
\* skipped, updated, unchanged, error: skipped iff there is no lookup key
\* (and then no network call), error iff the fetch failed after its
\* retries, updated iff the fetch succeeded and a non-empty ChangeSet was
\* applied to the registration, unchanged iff the fetch succeeded and the
\* ChangeSet is empty.
C16_OutcomeByChangeSet ==
  last_attempt.outcome # "none" =>
    OutcomeRule(last_attempt, ChangeSetOf(last_attempt) # NoChanges)

\* The rules hold when the stored image counts as a change.
OutcomeByChangesDict ==
  last_attempt.outcome # "none" =>
    OutcomeRule(last_attempt, last_attempt.changes # NoChanges)

(***************************************************************************)
(* Properties of one run of the notification sweep.                        *)
(***************************************************************************)
\* The type of every row is the window of the days that remained when the
\* row was created, and no registration has two rows.
OneAlertOfItsWindow ==
  /\ \A n \in notifications :
       n.notification_type = CurrentType(n.trigger_date - n.created_at)
  /\ \A n1, n2 \in notifications :
       n1.registration_id = n2.registration_id => n1 = n2

\* C17: in one run of check_expiring_trademarks over the intervals 180, 90,
\* 30 each candidate falls into exactly one window by its days remaining
\* and is alerted only in the pass of that window: the run creates at most
\* one expiration Notification per registration, and its type matches the
\* days remaining.
C17_OneAlertPerRun == OneAlertOfItsWindow

\* The same for a run that ends on the day it started.
OneAlertPerRunSameDay == instant = 1 => OneAlertOfItsWindow

\* The status a channel leaves in the row.
ChannelStatus(sent) == IF sent THEN "sent" ELSE None

\* What a step does to the alert worker w is sending: after the e-mail
\* attempt comes the Telegram attempt, after the Telegram attempt the row,
\* whatever the outcomes, and the row carries each channel's own outcome.
AlertStep(w) ==
  /\ (sw[w].pc = "email" /\ sw'[w] # sw[w]) => sw'[w].pc = "telegram"
  /\ (sw[w].pc = "telegram" /\ sw'[w] # sw[w]) =>
        (sw'[w].pc = "create" /\ sw'[w].email_sent = sw[w].email_sent)
  /\ (sw[w].pc = "create" /\ sw'[w] # sw[w]) =>
        \E n \in notifications' \ notifications :
          /\ notifications' = notifications \cup {n}
          /\ n.registration_id = sw[w].cur
          /\ n.email_status = ChannelStatus(sw[w].email_sent)
          /\ n.telegram_status = ChannelStatus(sw[w].telegram_sent)

\* A row is created only as the last step of an alert.
RowOnlyByAlert ==
  notifications' # notifications =>
    \E w \in Workers : sw[w].pc = "create" /\ sw'[w] # sw[w]

\* C18: when an alert is due both channels are attempted, the failure of
\* one never prevents the attempt on the other, and exactly one
\* Notification is created whatever the outcomes, its email_status and
\* telegram_status each telling the outcome of its own channel only.
C18_ChannelsIndependent ==
  [][RowOnlyByAlert /\ \A w \in Workers : AlertStep(w)]_vars

\* An alert whose e-mail failed (addresses were there) and whose Telegram
\* message went out has its row, and so has one whose two channels failed.
C18_Witness ==
  /\ admin_emails
  /\ \E n \in notifications : n.email_status = None /\ n.telegram_status = "sent"
  /\ \E n \in notifications : n.email_status = None /\ n.telegram_status = None
  /\ \E n \in notifications : n.email_status = "sent" /\ n.telegram_status = None

(***************************************************************************)
(* Properties of one client instance with several callers.                 *)
(***************************************************************************)
\* The callers whose network call has been issued and has not returned.
InFlight == {c \in Callers : active[c] /\ fetch[c].step = "call"}

\* C19: within one client instance at most one outbound call is in flight
\* at any time: no caller starts its network call while the call of another
\* caller on the same instance has not returned.
C19_OneCallInFlight == Cardinality(InFlight) <= 1

(***************************************************************************)
(* Properties of the requests of one run.                                  *)
(***************************************************************************)
\* C20: during one run of sync_fips_trademarks (sync_wipo_trademarks) any
\* two consecutive outbound requests of the run, those made for two
\* different registrations included, are at least 60/rate_limit_per_minute
\* seconds apart.
C20_RunSpacing == prev_call # -1 => last_call - prev_call >= MIN_DELAY(kind)

(***************************************************************************)
(* Properties of the attempts of one fetch.                                *)
(***************************************************************************)
\* A step in which caller c goes from one attempt of its fetch to the next.
NextAttemptStep(c) == active[c] /\ fetch'[c].attempt = fetch[c].attempt + 1

\* C21: between any two consecutive attempts of one fetch, whatever the
\* retryable failure of the earlier attempt (timeout, non-200 status,
\* connection error, no data obtained), the client waits the 5-second
\* backoff: the next attempt starts only out of the backoff sleep, once
\* BACKOFF seconds have passed since the failure.
C21_BackoffBetweenAttempts ==
  [][\A c \in Callers :
       NextAttemptStep(c) => fetch[c].step = "backoff" /\ now >= wake[c]]_vars

\* The part that holds: an attempt that ended in an exception (timeout,
\* connection error) is followed by the backoff.
BackoffAfterException ==
  [][\A c \in Callers :
       (NextAttemptStep(c) /\ fetch'[c].slept)
         => fetch[c].step = "backoff" /\ now >= wake[c]]_vars

(***************************************************************************)
(* Properties of a sync run that is killed.                                *)
(***************************************************************************)
\* The kill itself writes nothing: the rows, the trademarks and the log
\* entries committed so far stay as they are.
AbortKeepsCommitted ==
  [][job.pc # "idle" /\ job'.pc = "idle" /\ last_attempt'.outcome = "aborted"
       => regs' = regs /\ trademarks' = trademarks /\ sync_logs' = sync_logs]_vars

\* C22: the reconciliation of one registration is atomic with respect to an
\* abort of the task at any point: after the abort the registration whose
\* sync was under way has its field updates and last_sync_at committed
\* together with its SyncLogEntry, or none of them.
C22_ReconciliationAtomic ==
  last_attempt.outcome = "aborted" =>
    (last_attempt.mutated <=> last_attempt.nlogs = 1)

(***************************************************************************)
(* Properties of the candidate sets of the sync jobs.                      *)
(***************************************************************************)
\* The job the worker is running, by its name in the beat schedule.
RunningJob ==
  IF job.entry = "priority" THEN "priority"
  ELSE IF job.kind = "fips" THEN "national" ELSE "international"

\* C23: no Registration is a candidate of two different sync jobs that may
\* run concurrently (national sync, international sync, priority sync):
\* while a job runs over the rows it selected, none of these rows is a
\* candidate of another job, which a second worker could start meanwhile.
C23_CandidatesDisjoint ==
  (job.pc # "idle" /\ job.entry \in {"batch", "priority"}) =>
    \A r \in Range(job.selected) :
      \A j \in SyncJobs \ {RunningJob} : r \notin Candidates(j)

(***************************************************************************)
(* Properties of the status a sync writes.                                 *)
(***************************************************************************)
\* The lookup table of the status mapping: its keys and its values.
StatusTableKeys == {"registered", "pending", "rejected", "terminated", "expired"}
StatusTableValues == {"registered", "pending", "rejected", "terminated"}

\* The step in which the sync of the current row commits its update.
CommitStep == job.pc = "fetched" /\ job'.pc \in {"goods", "image", "log"}

\* C24: after any sync from either source the status of a Registration is
\* unchanged or one of the values of the lookup table (registered, pending,
\* rejected, terminated); an external status with no entry in the table, a
\* free text passed through by the normalization included, gives no status
\* entry in the ChangeSet and no status write.
C24_StatusFromTable ==
  [][/\ \A r \in Regs :
          regs'[r].status # regs[r].status => regs'[r].status \in StatusTableValues
     /\ (CommitStep /\ lower(job.rec.status) \notin StatusTableKeys) =>
          /\ regs'[job.cur].status = regs[job.cur].status
          /\ job'.changes.status = <<>>]_vars

\* A sync has committed its update with a free-text status that has no
\* entry in the table, and the status of the row is as it was.
C24_Witness ==
  /\ job.pc = "log"
  /\ job.rec.status = "Opposed"
  /\ regs[job.cur].status = job.before.status
  /\ job.changes.status = <<>>

(***************************************************************************)
(* Properties of the statistics of a task.                                 *)
(***************************************************************************)
\* The syncs of the running task, for the source it is at, that returned
\* the outcome o.
Returned(o) == {i \in DOMAIN job.outcomes : job.outcomes[i] = o}

\* C25: the statistics of sync(source, limit) and of sync_priority() report,
\* per source, an error count equal to the number of processed
\* registrations whose sync outcome was error.  Stated at every point of
\* the loop of a task, its end (where the statistics are returned) included.
C25_ErrorCount ==
  job.entry \in {"batch", "priority"} =>
    job.results[job.kind].errors = Cardinality(Returned("error"))

\* The part that holds: the counters of sync(source, limit).
BatchCounts ==
  job.entry = "batch" =>
    /\ job.results[job.kind].errors = Cardinality(Returned("error"))
    /\ job.results[job.kind].updated = Cardinality(Returned("updated"))
    /\ job.results[job.kind].unchanged = Cardinality(Returned("unchanged"))
    /\ job.results[job.kind].skipped = Cardinality(Returned("skipped"))
    /\ job.results[job.kind].synced = Len(job.outcomes)
    /\ job.results[job.kind].total = Len(job.selected)

(***************************************************************************)
(* Properties of the priority sync.                                        *)
(***************************************************************************)
\* The row passes the filter of the priority sync for source k: active,
\* flagged for k, expiring within [today, today + 180].
PassesPriorityFilter(k, reg) ==
  /\ reg.renewal_status = "active"
  /\ IF k = "fips" THEN reg.is_national ELSE reg.is_international
  /\ reg.expiration_date # NoDate
  /\ today <= reg.expiration_date
  /\ reg.expiration_date <= today + 180

\* The step in which the loop of the priority sync takes up its next row.
PriorityAttempt == job.entry = "priority" /\ attempts' = attempts + 1

\* The national candidates are all processed before the first international
\* one: the run goes over to its international list with its national list
\* used up, and never back.
NationalFirst ==
  /\ (job.entry = "priority" /\ job.kind = "fips" /\ job'.kind = "wipo") =>
       job.queue = <<>> /\ job.attempted = job.selected
  /\ (job.entry = "priority" /\ job.kind = "wipo" /\ job'.entry = "priority") =>
       job'.kind = "wipo"

LogStatuses == {"success", "failed", "skipped"}
LogSources == {"fips", "wipo", "system"}

\* C27: in every reachable state every SyncLogEntry has its status in
\* {success, failed, skipped} and its source in {national, international,
\* system}, the entries of the reconciliation sweep included.
C27_LogVocabulary ==
  \A i \in DOMAIN sync_logs :
    sync_logs[i].status \in LogStatuses /\ sync_logs[i].source \in LogSources

\* The part that holds: the entries of the per-registration syncs.
RegistrationLogVocabulary ==
  \A i \in DOMAIN sync_logs :
    sync_logs[i].registration_id # None =>
      sync_logs[i].status \in {"success", "failed"} /\ sync_logs[i].source \in Kinds

(***************************************************************************)
(* Properties of the class fields of a record.                             *)
(***************************************************************************)
\* The class list: only integers in 1..45, none of them twice; the keys of
\* the class-description map: only integers in 1..45.
ValidClasses(rec) ==
  /\ \A i \in DOMAIN rec.icgs_classes : rec.icgs_classes[i] \in 1..45
  /\ \A i, j \in DOMAIN rec.icgs_classes : i # j => rec.icgs_classes[i] # rec.icgs_classes[j]
  /\ \A g \in rec.goods_services : g[1] \in 1..45
  /\ \A g, h \in rec.goods_services : g[1] = h[1] => g = h

\* The scenario of the spec: "25 - clothing 35 - advertising" gives the
\* classes [25, 35] and the descriptions {25: clothing, 35: advertising}.
Scenario ==
  (parsed.done /\ response.client = "fips" /\ response.text = ScenarioText) =>
    /\ parsed.icgs_classes = <<25, 35>>
    /\ parsed.goods_services = {<<25, <<Word("clothing")>>>>, <<35, <<Word("advertising")>>>>}

\* C28: for both clients and every input, the class list of a returned
\* RegistryRecord contains only integers in 1..45 with no duplicates and the
\* class-description map has keys only in 1..45; the text
\* "25 - clothing 35 - advertising" yields the classes [25, 35] with the
\* descriptions {25: clothing, 35: advertising}.
C28_ClassesValid == (parsed.done => ValidClasses(parsed)) /\ Scenario

\* The part that holds: the records built from a text, by the FIPS scraper
\* and by the HTML fallback of the WIPO client.
TextClassesValid ==
  (parsed.done /\ response.client \in {"fips", "wipo_html"} => ValidClasses(parsed)) /\ Scenario

(***************************************************************************)
(* Properties of the merge of the class descriptions.                      *)
(***************************************************************************)
\* The class numbers of a set of <<class, description>>.
ClassNumbers(classes) == {c[1] : c \in classes}

\* The step in which _update_goods_services merges the record of the sync
\* into the classes of the trademark.
MergeStep == job.pc = "goods" /\ job'.pc # "goods"

\* C29: the merge of fetched class descriptions into a trademark is
\* additive-only.  In every step the class numbers stored for a trademark
\* are a superset of those before; in a merge a fetched class has the
\* fetched description afterwards, whether it was present or not, a class
\* absent from the fetch is left as it was, and nothing else is stored.
C29_MergeAdditive ==
  [][/\ \A r \in Regs :
          ClassNumbers(trademarks[r].classes) \subseteq ClassNumbers(trademarks'[r].classes)
     /\ MergeStep =>
          LET old == trademarks[job.cur].classes
              new == trademarks'[job.cur].classes
              fetched == job.rec.goods_services
          IN /\ fetched \subseteq new
             /\ \A c \in old : c[1] \notin ClassNumbers(fetched) => c \in new
             /\ new \subseteq old \cup fetched
             /\ \A c, d \in new : c[1] = d[1] => c = d]_vars

\* A merge has replaced the description of class 25, added class 35 and
\* left class 9 as it was.
C29_Witness ==
  \E r \in Regs :
    trademarks[r].classes =
      {<<9, "software">>, <<25, "clothing">>, <<35, "advertising">>}

(***************************************************************************)
(* Properties of a sync whose image storage fails.                         *)
(***************************************************************************)
\* The step in which the image storage fails for the current row: it
\* returns no stored path (the sync goes on to its log entry without an
\* image), or the block raises (the sync returns).
ImageFails ==
  /\ job.pc = "image"
  /\ \/ job'.pc = "log" /\ job'.changes.image = <<>>
     \/ job'.pc = "next"

\* C30: if the image storage fails for a registration (no stored path, or an
\* exception), the field updates and last_sync_at that the sync has applied
\* stay committed, the sync of that registration returns, and the rest of
\* the batch is attempted: the rows that remain stay in the list, the task
\* returns only with its whole list attempted, and it does return.
C30_ImageFailureTolerated ==
  /\ [][ImageFails =>
          /\ regs' = regs
          /\ regs[job.cur] = update_registration(job.kind, job.before, job.rec, attempts)
          /\ regs[job.cur].last_sync_at = attempts
          /\ job'.queue = job.queue]_vars
  /\ [][(job.pc # "idle" /\ job'.pc = "idle") => job.attempted = job.selected]_vars
  /\ (job.pc = "image") ~> (job.cur = None)
  /\ (job.pc = "image") ~> (job.pc = "idle")

\* The storage failed for the first row of a batch of two: its update is
\* committed without an image, and the second row has been attempted.
C30_Witness ==
  /\ job.entry \in {"batch", "priority"}
  /\ Len(job.attempted) = 2
  /\ prev_attempt.registration_id = job.attempted[1]
  /\ prev_attempt.rec_error = None
  /\ prev_attempt.mutated
  /\ prev_attempt.changes.image = <<>>
  /\ trademarks[job.attempted[1]].image_path = None

(***************************************************************************)
(* Properties of a response that cannot be parsed.                         *)
(***************************************************************************)
ParseErrors == {"Extraction error", "Parse error"}

\* C31: a parse/extraction failure of a fetched response is retried once:
\* a fetch that was allowed more than one attempt and that returns a record
\* carrying a parse or extraction error has fetched the number at least
\* twice.
C31_ParseFailureRetriedOnce ==
  \A c \in Callers :
    (active[c] /\ retries >= 2 /\ fetch[c].step = "done"
       /\ fetch[c].rec.error \in ParseErrors)
      => fetch[c].ncalls >= 2

\* The part that holds for the WIPO client when its JSON answer is the one
\* that cannot be parsed: the number is fetched once more, from the HTML
\* page.
ApiParseFailureFallsBack ==
  [][\A c \in Callers :
       (kind = "wipo" /\ fetch[c].step = "call" /\ fetch[c].phase = "main"
          /\ fetch'[c].step = "done")
         => fetch'[c].rec.error = None]_vars

(***************************************************************************)
(* Properties of the alert on a status change.                             *)
(***************************************************************************)
\* The last run of the sync has changed the status of row r.
StatusChanged(r) ==
  /\ \E i \in DOMAIN job.attempted : job.attempted[i] = r
  /\ job.before[r].status # regs[r].status

\* C32: whenever the reconciliation of a sync changes the status of a
\* Registration, send_status_change_notification is invoked for that
\* registration: a status-change alert for it is eventually sent.
C32_StatusChangeAlerted ==
  \A r \in Regs : StatusChanged(r) ~> (AlertsOf(r, "status_change") # {})

\* The step in which a sync changes a status sends no alert and leaves
\* nothing behind that would send one.
StatusChangeSilent ==
  [][(\E r \in Regs : regs'[r].status # regs[r].status) => alerts' = alerts]_vars

(***************************************************************************)
(* Properties of the full reconciliation.                                  *)
(***************************************************************************)
\* The active rows flagged national (k = "fips") or international.
ActiveFlagged(k) ==
  {r \in Regs : /\ regs[r].renewal_status = RenewalStatus.ACTIVE
                /\ IF k = "fips" THEN regs[r].is_national ELSE regs[r].is_international}

EligibleWithKey(k, r) == Eligible(k, regs[r]) /\ lookup_key(k, regs[r]) # None

\* C34: under repeated sync(source, limit) runs every registration that is
\* active, flagged for the source and has a lookup key (none of which a
\* sync changes) is eventually attempted, also when the eligible rows
\* outnumber limit and whether or not the syncs of earlier rows fail.
C34_NoStarvation ==
  \A r \in Regs :
    EligibleWithKey(job.kind, r) => <>(\E i \in DOMAIN job.attempted : job.attempted[i] = r)

\* The part that holds: a limit that covers every eligible row leaves none
\* out.
AllAttemptedWithinLimit ==
  \A r \in Regs :
    (EligibleWithKey(job.kind, r)
       /\ Cardinality({x \in Regs : Eligible(job.kind, regs[x])}) <= job.limit)
      => <>(\E i \in DOMAIN job.attempted : job.attempted[i] = r)

(***************************************************************************)
(* Properties of the alerts that are due when a run ends.                  *)
(***************************************************************************)
\* Worker w returns from check_expiring_trademarks in this step.
RunCompletes(w) == sw[w].pc # "idle" /\ sw'[w].pc = "idle"

\* Row r is active and expires within the 180 days from today on.
Due(r) == Expiring(r, 180)

\* A Notification of the current window of row r was created within the
\* trailing 7 days.
DueRecorded(r) ==
  check_notification_exists(r, CurrentType(regs[r].expiration_date - today))

\* C35: when a check_expiring_trademarks run with the intervals 180, 90, 30
\* completes, every active registration whose expiration date lies in
\* [today, today + 180 days] has a Notification of its current-window type
\* created within the trailing 7 days.
C35_DueAlertsRecorded ==
  [][\A w \in SeqWorkers :
       RunCompletes(w) => \A r \in Regs : Due(r) => DueRecorded(r)]_vars

\* The part that holds: a run that starts and ends on the same day leaves no
\* due alert unrecorded.
DueRecordedSameDay ==
  [][\A w \in SeqWorkers :
       (RunCompletes(w) /\ instant = 1) => \A r \in Regs : Due(r) => DueRecorded(r)]_vars

(***************************************************************************)
(* Properties of a sweep in which an alert fails.                          *)
(***************************************************************************)
\* The alert of the current row of worker w fails in this step: a channel
\* does not deliver, or the row is not inserted.
SendFails(w) ==
  \/ sw[w].pc = "email" /\ sw'[w].pc # "email" /\ ~sw'[w].email_sent
  \/ sw[w].pc = "telegram" /\ sw'[w].pc # "telegram" /\ ~sw'[w].telegram_sent

PersistFails(w) ==
  sw[w].pc = "create" /\ sw'[w].pc # "create" /\ notifications' = notifications

\* The run of worker w is still at its current pass, with the rows behind
\* the current one still to come.
GoesOn(w) ==
  /\ sw'[w].pc \in {"telegram", "create", "loop"}
  /\ sw'[w].idx = sw[w].idx
  /\ sw'[w].rows \in {sw[w].rows, Tail(sw[w].rows)}

\* C36: in a notification sweep a failure while sending or persisting the
\* alert of one registration does not keep the remaining registrations of
\* the interval and the remaining intervals of the run from being
\* processed: the run goes on after the failure.
C36_AlertFailureIsolated ==
  [][\A w \in SeqWorkers : (SendFails(w) \/ PersistFails(w)) => GoesOn(w)]_vars

\* The part that holds: a channel that does not deliver leaves the run going.
SendFailureIsolated ==
  [][\A w \in SeqWorkers : SendFails(w) => GoesOn(w)]_vars

(***************************************************************************)
(* Properties of a fetch that succeeds after failed attempts.              *)
(***************************************************************************)
\* The fetch of caller c has returned from an attempt that succeeded after
\* at least one failed attempt.
SucceededLate(c) ==
  /\ active[c]
  /\ fetch[c].step = "done"
  /\ fetch[c].okAt >= 1

\* C37: a fetch whose k-th attempt succeeds after earlier failed attempts
\* returns the record the parser made of the response, with an empty error
\* slot: the error an earlier attempt left in the local result does not
\* reach the returned record, and the sync takes the record for a success.
C37_NoStaleError ==
  \A c \in Callers :
    SucceededLate(c) =>
      /\ fetch[c].rec = ParsedRec(kind, SampleExt)
      /\ fetch[c].rec.error = None
      /\ ~has_error(fetch[c].rec)

\* A fetch has returned the record of its third attempt while the local
\* result still carries the error of the second.
C37_Witness ==
  \E c \in Callers :
    /\ SucceededLate(c)
    /\ fetch[c].okAt = DefaultRetries - 1
    /\ fetch[c].error # None
    /\ fetch[c].rec.error = None

\* In a sync a record without an error is reconciled and logged as a
\* success.
CleanRecordLogged ==
  /\ [][(job.pc = "fetched" /\ ~has_error(job.rec)) =>
          job'.pc \in {"goods", "image", "log"}]_vars
  /\ [][job.pc = "log" =>
          /\ Len(sync_logs') = Len(sync_logs) + 1
          /\ sync_logs'[Len(sync_logs')].status = "success"
          /\ Succeeded(last_attempt')]_vars

(***************************************************************************)
(* Properties of the order of the renewal statuses.                        *)
(***************************************************************************)
\* The place of a renewal status in the declared order.
RenewalRank(rs) ==
  CASE rs = RenewalStatus.ACTIVE -> 0
    [] rs = RenewalStatus.RENEWAL_FILED -> 1
    [] rs = RenewalStatus.NOT_RENEWING -> 2
    [] rs = RenewalStatus.EXPIRED -> 3

\* C38: under any sequence of syncs and manual renewal actions
\* renewal_status only moves forward in the order active, renewal_filed,
\* not_renewing, expired, but for a renewal-filed action applied to an
\* expired registration: no operation moves a not_renewing registration to
\* renewal_filed or any registration back to active.
C38_RenewalStatusForward ==
  [][\A r \in Regs :
       regs'[r].renewal_status # regs[r].renewal_status =>
         \/ RenewalRank(regs'[r].renewal_status) > RenewalRank(regs[r].renewal_status)
         \/ /\ regs[r].renewal_status = RenewalStatus.EXPIRED
            /\ regs'[r].renewal_status = RenewalStatus.RENEWAL_FILED]_vars

\* The part that holds: no sync and no renewal action makes a registration
\* active again.
NeverBackToActive ==
  [][\A r \in Regs :
       regs'[r].renewal_status = RenewalStatus.ACTIVE =>
         regs[r].renewal_status = RenewalStatus.ACTIVE]_vars

(***************************************************************************)
(* Properties of the image of a trademark that has one.                    *)
(***************************************************************************)
\* The sync of the current row is at its storage block and the trademark of
\* the row has a stored image.
HasStoredImage == job.pc = "image" /\ trademarks[job.cur].image_path # None

\* C39: a sync downloads and stores a trademark image only if the trademark
\* has no stored image yet: for a trademark whose image_path is set, the
\* sync leaves image_path and image_source as they are and stores no new
\* object.
C39_ImageOnlyIfMissing ==
  [][HasStoredImage =>
       /\ trademarks'[job.cur].image_path = trademarks[job.cur].image_path
       /\ trademarks'[job.cur].image_source = trademarks[job.cur].image_source
       /\ job'.changes.image = <<>>]_vars

\* The part that holds: a sync whose record carries no image URL never
\* reaches the storage.
NoUrlNoStore ==
  [][(job.pc \in {"fetched", "goods"} /\ job.rec.image_url = None) =>
       job'.pc # "image"]_vars

====
